---- MODULE Spec2Model ----
(***************************************************************************)
(* Model of the canvas-sketch whiteboard: WhiteboardCanvas (local drawing, *)
(* throttled/batched real-time emission, remote apply) and CommonUtilities *)
(* (colour palette, colour conversion).                                    *)
(*                                                                         *)
(* The whiteboard object, the static palette, the drawing surface, the     *)
(* pending timers of the event loop and the events handed to the transport *)
(* are the fields of one record; every handler of the source is an         *)
(* operator from such a record to the record after the handler returned.   *)
(*                                                                         *)
(* Time.  The source reads Date.now() and compares differences of          *)
(* timestamps with constants.  Timestamps are kept relative to the current *)
(* instant: Date.now() is always Now (0), a stored timestamp is <= 0 and   *)
(* ages when time passes, and a timer's due time is >= 0 and counts down   *)
(* to 0 (a timer may fire late, never early).  Time passes one tick at a   *)
(* time (Tick) or, when no timer is waiting, in one long idle period of    *)
(* more than the urgency slack (Idle).  The source compares the age of a   *)
(* timestamp only with STROKE_THROTTLE and with the urgency slack, so an   *)
(* age that grew by single ticks saturates at Horizon (not below the       *)
(* throttle), and the age after a long idle period is LongAgo (beyond the  *)
(* slack).                                                                 *)
(***************************************************************************)
EXTENDS Integers, Sequences, FiniteSets, TLC

(***************************************************************************)
(* Program constants.                                                      *)
(***************************************************************************)
\* constants/index.constants: the throttle/batch parameters
STROKE_THROTTLE == 8
BATCH_SIZE == 3
BATCH_DELAY == 16
\* the urgency slack of sendRealtimeStroke (now - lastStrokeSent > 50)
URGENCY_SLACK == 50
\* draw: interpolate when the distance exceeds 20, one sub-segment per 10
INTERP_THRESHOLD == 20
INTERP_STEP == 10
\* draw: the i-th interpolated send is delayed by i * 2
INTERP_STAGGER == 2
\* getColorIndex: the palette holds at most 256 colours
PALETTE_CAP == 256
\* encodeDrawingBinary: strokes.length & 0xff, the range of the count byte
COUNT_RANGE == 256
\* Date.now() in relative time
Now == 0
\* the age of a timestamp after a long idle period
LongAgo == URGENCY_SLACK + 1

(***************************************************************************)
(* Bounds of the model.                                                    *)
(***************************************************************************)
\* the time unit of Tick
TickUnit == 4
\* ages that grew by single ticks saturate here (>= STROKE_THROTTLE)
Horizon == 8
\* canvas.width / canvas.height of the modelled surface
CanvasW == 3
CanvasH == 2
\* number of startDraw / draw events of a run
MaxStarts == 1
MaxDraws == 2
\* number of startDraw events of a run of two whiteboards side by side
MaxGestures == 2
\* number of setTool calls
MaxTools == 1
\* number of entries of a received batch, number of batches received
MaxBatchLen == 4
MaxBatches == 1
\* number of clearCanvas / sendCompleteDrawing / syncColorPalette calls
MaxMisc == 1
\* number of entries of a list applied next to local drawing
MaxListLen == 2
\* number of getColorIndex calls made on the palette directly
MaxCalls == 3
\* number of floodFill calls made on a pixel buffer directly
MaxFills == 2
\* number of strokes of an encoded list (next to the lists of 255 to 257)
MaxStrokes == 2

Max(a, b) == IF a >= b THEN a ELSE b
Min(a, b) == IF a <= b THEN a ELSE b

(***************************************************************************)
(* Colours.  A hex colour string is the sequence of its characters.        *)
(***************************************************************************)
Hex(a, b, c, d, e, f) == <<"#", a, b, c, d, e, f>>

UpperDigits == <<"0","1","2","3","4","5","6","7","8","9","A","B","C","D","E","F">>
LowerDigits == <<"0","1","2","3","4","5","6","7","8","9","a","b","c","d","e","f">>

IsHexDigit(ch) == \E i \in 1..16 : UpperDigits[i] = ch \/ LowerDigits[i] = ch

DigitValue(ch) == (CHOOSE i \in 1..16 : UpperDigits[i] = ch \/ LowerDigits[i] = ch) - 1

\* CommonUtilities.hexToRgb: /^#?([a-f\d]{2})([a-f\d]{2})([a-f\d]{2})$/i,
\* {r: 0, g: 0, b: 0} when the string does not match
hexToRgb(hex) ==
  LET body == IF Len(hex) >= 1 /\ hex[1] = "#" THEN Tail(hex) ELSE hex
  IN IF Len(body) = 6 /\ \A i \in 1..6 : IsHexDigit(body[i])
       THEN [r |-> 16 * DigitValue(body[1]) + DigitValue(body[2]),
             g |-> 16 * DigitValue(body[3]) + DigitValue(body[4]),
             b |-> 16 * DigitValue(body[5]) + DigitValue(body[6])]
       ELSE [r |-> 0, g |-> 0, b |-> 0]

\* CommonUtilities.rgbToHex: two upper-case hex digits per channel
rgbToHex(r, g, b) ==
  <<"#", UpperDigits[(r \div 16) + 1], UpperDigits[(r % 16) + 1],
         UpperDigits[(g \div 16) + 1], UpperDigits[(g % 16) + 1],
         UpperDigits[(b \div 16) + 1], UpperDigits[(b % 16) + 1]>>

BLACK == Hex("0","0","0","0","0","0")
WHITE == Hex("F","F","F","F","F","F")
RED == Hex("F","F","0","0","0","0")
\* a colour that is not in the initial palette
TEAL == Hex("1","2","a","b","3","4")

\* CommonUtilities.colorPalette as the class is loaded
InitialPalette ==
  << BLACK, WHITE, RED,
     Hex("0","0","F","F","0","0"), Hex("0","0","0","0","F","F"),
     Hex("F","F","F","F","0","0"), Hex("F","F","0","0","F","F"),
     Hex("0","0","F","F","F","F"), Hex("F","F","A","5","0","0"),
     Hex("8","0","0","0","8","0"), Hex("F","F","C","0","C","B"),
     Hex("A","5","2","A","2","A"), Hex("8","0","8","0","8","0"),
     Hex("8","0","8","0","0","0"), Hex("0","0","8","0","8","0"),
     Hex("b","7","1","5","1","5"), Hex("F","F","D","7","0","0"),
     Hex("F","F","6","3","4","7"), Hex("4","1","6","9","E","1"),
     Hex("3","2","C","D","3","2") >>

\* Array.prototype.indexOf (0-based, -1 when absent)
IndexOf(seq, x) ==
  IF \E i \in 1..Len(seq) : seq[i] = x
    THEN (CHOOSE i \in 1..Len(seq) : seq[i] = x /\ \A j \in 1..(i - 1) : seq[j] # x) - 1
    ELSE -1

\* Faulty variant of getColorIndex: a new colour is put in front of the palette
getColorIndexPrepending(palette, color) ==
  LET idx == IndexOf(palette, color)
  IN IF idx # -1 THEN [idx |-> idx, palette |-> palette]
     ELSE IF Len(palette) < PALETTE_CAP
       THEN [idx |-> 0, palette |-> <<color>> \o palette]
       ELSE [idx |-> 0, palette |-> palette]

\* Faulty variant of getColorIndex: no capacity test
getColorIndexUncapped(palette, color) ==
  LET idx == IndexOf(palette, color)
  IN IF idx # -1 THEN [idx |-> idx, palette |-> palette]
     ELSE [idx |-> Len(palette), palette |-> Append(palette, color)]

\* CommonUtilities.getColorIndex: the index returned and the palette afterwards
getColorIndex(palette, color) ==
  LET idx == IndexOf(palette, color)
  IN IF idx # -1 THEN [idx |-> idx, palette |-> palette]
     ELSE IF Len(palette) < PALETTE_CAP
       THEN [idx |-> Len(palette), palette |-> Append(palette, color)]
       ELSE [idx |-> 0, palette |-> palette]

\* Faulty variant of indexToColor: the index is taken as 1-based
indexToColorOneBased(palette, idx) ==
  IF idx \in 1..Len(palette) /\ palette[idx] # <<>> THEN palette[idx] ELSE BLACK

\* CommonUtilities.indexToColor: colorPalette[idx] || "#000000" (an index
\* outside the palette reads undefined, and the empty string is falsy too)
indexToColor(palette, idx) ==
  IF idx \in 0..(Len(palette) - 1) /\ palette[idx + 1] # <<>>
    THEN palette[idx + 1]
    ELSE BLACK

(***************************************************************************)
(* The drawing surface: the RGBA pixel buffer that getImageData returns    *)
(* (row-major, one <<r, g, b, a>> per pixel), the state of the 2D context  *)
(* and the list of stroke() calls the surface has rendered since it was    *)
(* last cleared.                                                           *)
(***************************************************************************)
TRANSPARENT == <<0, 0, 0, 0>>
\* a read outside the buffer (undefined channels)
UNDEF == <<-1, -1, -1, -1>>

BlankData == [i \in 1..(CanvasW * CanvasH) |-> TRANSPARENT]

PixelAt(data, index) ==
  IF index \in 0..(Len(data) - 1) THEN data[index + 1] ELSE UNDEF

\* Faulty variant of FloodLoop: the diagonal neighbours are pushed as well
RECURSIVE FloodLoopDiagonal(_, _, _, _, _)
FloodLoopDiagonal(data, queue, visited, start, fill) ==
  IF queue = <<>> THEN data
  ELSE LET c == Head(queue)
           cx == c[1]
           cy == c[2]
           rest == Tail(queue)
       IN IF c \in visited \/ cx < 0 \/ cx >= CanvasW \/ cy < 0 \/ cy >= CanvasH
            THEN FloodLoopDiagonal(data, rest, visited, start, fill)
            ELSE LET index == cy * CanvasW + cx
                 IN IF PixelAt(data, index) = start
                      THEN FloodLoopDiagonal([data EXCEPT ![index + 1] = fill],
                                     rest \o << <<cx + 1, cy>>, <<cx - 1, cy>>,
                                                <<cx, cy + 1>>, <<cx, cy - 1>>,
                                                <<cx + 1, cy + 1>>, <<cx - 1, cy - 1>>,
                                                <<cx + 1, cy - 1>>, <<cx - 1, cy + 1>> >>,
                                     visited \cup {c}, start, fill)
                      ELSE FloodLoopDiagonal(data, rest, visited \cup {c}, start, fill)

\* the BFS loop of floodFill
RECURSIVE FloodLoop(_, _, _, _, _)
FloodLoop(data, queue, visited, start, fill) ==
  IF queue = <<>> THEN data
  ELSE LET c == Head(queue)
           cx == c[1]
           cy == c[2]
           rest == Tail(queue)
       IN IF c \in visited \/ cx < 0 \/ cx >= CanvasW \/ cy < 0 \/ cy >= CanvasH
            THEN FloodLoop(data, rest, visited, start, fill)
            ELSE LET index == cy * CanvasW + cx
                 IN IF PixelAt(data, index) = start
                      THEN FloodLoop([data EXCEPT ![index + 1] = fill],
                                     rest \o << <<cx + 1, cy>>, <<cx - 1, cy>>,
                                                <<cx, cy + 1>>, <<cx, cy - 1>> >>,
                                     visited \cup {c}, start, fill)
                      ELSE FloodLoop(data, rest, visited \cup {c}, start, fill)

\* Faulty variant of floodFill: the alpha written is the seed's alpha raised
\* by half the range instead of 255
floodFillBlending(data, x, y, fillColor) ==
  LET start == PixelAt(data, y * CanvasW + x)
      rgb == hexToRgb(fillColor)
      fill == <<rgb.r, rgb.g, rgb.b, Min(255, Max(start[4], 0) + 128)>>
  IN IF start = <<rgb.r, rgb.g, rgb.b, 255>> THEN data
     ELSE FloodLoop(data, << <<x, y>> >>, {}, start, fill)

\* WhiteboardCanvas.floodFill on the pixel buffer (x, y integers)
floodFill(data, x, y, fillColor) ==
  LET start == PixelAt(data, y * CanvasW + x)
      rgb == hexToRgb(fillColor)
      fill == <<rgb.r, rgb.g, rgb.b, 255>>
  IN IF start = fill THEN data
     ELSE FloodLoop(data, << <<x, y>> >>, {}, start, fill)

(***************************************************************************)
(* The 2D context.  ctx.path is the current subpath (the points given by   *)
(* moveTo/lineTo since beginPath).  stroke() renders the current path with *)
(* the current line width, composite operation and stroke style.           *)
(***************************************************************************)
SOURCE_OVER == "source-over"
DESTINATION_OUT == "destination-out"

InitialCtx ==
  [lineWidth |-> 1, globalCompositeOperation |-> SOURCE_OVER,
   strokeStyle |-> BLACK, path |-> <<>>]

InCanvas(p) == p[1] \in 0..(CanvasW - 1) /\ p[2] \in 0..(CanvasH - 1)

\* The surface's rasterisation of a stroked path, reduced to the pixels under
\* the path's points: painted in the stroke style (source-over) or cleared
\* (destination-out).  The line primitive itself belongs to the browser.
RECURSIVE PaintPoints(_, _, _)
PaintPoints(data, path, pixel) ==
  IF path = <<>> THEN data
  ELSE LET p == Head(path)
           d == IF InCanvas(p)
                  THEN [data EXCEPT ![p[2] * CanvasW + p[1] + 1] = pixel]
                  ELSE data
       IN PaintPoints(d, Tail(path), pixel)

\* context.stroke(): a subpath of fewer than two points renders nothing
ctxStroke(s) ==
  IF Len(s.ctx.path) < 2 THEN s
  ELSE LET rgb == hexToRgb(s.ctx.strokeStyle)
           pixel == IF s.ctx.globalCompositeOperation = DESTINATION_OUT
                      THEN TRANSPARENT
                      ELSE <<rgb.r, rgb.g, rgb.b, 255>>
       IN [s EXCEPT !.data = PaintPoints(s.data, s.ctx.path, pixel),
                    !.rendered = Append(s.rendered,
                       [mode |-> s.ctx.globalCompositeOperation,
                        color |-> s.ctx.strokeStyle,
                        width |-> s.ctx.lineWidth,
                        path |-> s.ctx.path])]

\* context.clearRect(0, 0, canvas.width, canvas.height)
ctxClearRect(s) == [s EXCEPT !.data = BlankData, !.rendered = <<>>]

(***************************************************************************)
(* Timers of the event loop: setTimeout / clearTimeout.  s.timers lists    *)
(* the pending timers in creation order.  Timer ids are never reused while *)
(* a handle to them is held.                                               *)
(***************************************************************************)
NewTimerId(s) ==
  CHOOSE i \in 1..(Len(s.timers) + 2) :
    /\ i # s.batchTimer
    /\ \A k \in 1..Len(s.timers) : s.timers[k].id # i
    /\ \A j \in 1..(i - 1) :
         j = s.batchTimer \/ \E k \in 1..Len(s.timers) : s.timers[k].id = j

\* setTimeout(callback, ms): kind names the callback, args its captured arguments
setTimeout(s, kind, ms, args) ==
  [s EXCEPT !.timers = Append(s.timers,
     [id |-> NewTimerId(s), kind |-> kind, ms |-> ms, due |-> Now + ms, args |-> args])]

RemoveAt(seq, i) == SubSeq(seq, 1, i - 1) \o SubSeq(seq, i + 1, Len(seq))

RECURSIVE RemoveId(_, _)
RemoveId(timers, id) ==
  IF timers = <<>> THEN <<>>
  ELSE IF Head(timers).id = id THEN RemoveId(Tail(timers), id)
  ELSE <<Head(timers)>> \o RemoveId(Tail(timers), id)

\* clearTimeout(id)
clearTimeout(s, id) == [s EXCEPT !.timers = RemoveId(s.timers, id)]

(***************************************************************************)
(* The transport: socket.emit(event, payload).  roomId, userId and the     *)
(* timestamp of a payload are left out.                                    *)
(***************************************************************************)
Emit(s, event, payload) ==
  [s EXCEPT !.emitted = Append(s.emitted,
                               [event |-> event, payload |-> payload, by |-> s.caller])]

\* History: the handler on whose behalf the next event is emitted
Via(s, caller) == [s EXCEPT !.caller = caller]

\* History: the method call o = <<name, arguments...>> is recorded
Op(s, o) == [s EXCEPT !.op = o, !.ops = @ + 1]

(***************************************************************************)
(* Rational coordinates <<numerator, denominator>> (denominator > 0) for   *)
(* the interpolated points of draw, and Math.round on them.                *)
(***************************************************************************)
Rat(n) == <<n, 1>>

\* Math.round: the nearest integer, halves rounded up
MathRound(q) == (2 * q[1] + q[2]) \div (2 * q[2])

\* Math.floor(Math.sqrt(d2) / step) for an integer d2 >= 0
FloorSqrtDiv(d2, step) ==
  CHOOSE k \in 0..(d2 + 1) :
    (step * k) * (step * k) <= d2 /\ (step * (k + 1)) * (step * (k + 1)) > d2

(***************************************************************************)
(* WhiteboardCanvas: the handlers.  s is the record of the object's fields *)
(* and of its environment; the value is the record when the handler        *)
(* returns.  currentStroke = <<>> stands for null.                         *)
(***************************************************************************)
TypeCode(tool) == IF tool = "eraser" THEN 1 ELSE 0

\* Faulty variant of sendStrokeBatch: the pending flush timer is left armed
sendStrokeBatchKeepsTimer(s) ==
  IF ~s.socket \/ Len(s.strokeBuffer) = 0 THEN s
  ELSE [Emit(s, "stroke-batch", s.strokeBuffer)
          EXCEPT !.strokeBuffer = <<>>, !.sinceFlush = "recent"]

\* faulty variant: the emitted micro-strokes stay in the buffer
sendStrokeBatchKeeping(s) ==
  IF ~s.socket \/ Len(s.strokeBuffer) = 0 THEN s
  ELSE LET e == Emit(s, "stroke-batch", s.strokeBuffer)
           b == [e EXCEPT !.sinceFlush = "recent"]
       IN IF b.batchTimer # 0
            THEN [clearTimeout(b, b.batchTimer) EXCEPT !.batchTimer = 0]
            ELSE b

\* sendStrokeBatch
sendStrokeBatch(s) ==
  IF ~s.socket \/ Len(s.strokeBuffer) = 0 THEN s
  ELSE LET e == Emit(s, "stroke-batch", s.strokeBuffer)
           b == [e EXCEPT !.strokeBuffer = <<>>, !.sinceFlush = "recent"]
       IN IF b.batchTimer # 0
            THEN [clearTimeout(b, b.batchTimer) EXCEPT !.batchTimer = 0]
            ELSE b

\* sendSingleStroke
sendSingleStroke(s, microStroke, type) ==
  IF ~s.socket THEN s
  ELSE Emit(s, "single-stroke", [stroke |-> microStroke, type |-> type])

\* Faulty variant of sendCanvasClear: emits without testing the socket
sendCanvasClearUnguarded(s) == Emit(s, "canvas-clear", <<>>)

\* sendCanvasClear
sendCanvasClear(s) ==
  IF ~s.socket THEN s ELSE Emit(s, "canvas-clear", <<>>)

\* sendRealtimeFill (x, y integers)
sendRealtimeFill(s, x, y, fillColor, originalColor) ==
  IF ~s.socket THEN s
  ELSE LET f == getColorIndex(s.palette, fillColor)
           o == getColorIndex(f.palette, originalColor)
           fillData == <<2, f.idx, MathRound(Rat(x)), MathRound(Rat(y)), o.idx,
                         fillColor, originalColor>>
       IN sendSingleStroke([s EXCEPT !.palette = o.palette], fillData, "fill")

\* History: the segments handed to sendRealtimeStroke by draw or by an
\* interpolation timer while a transport is attached
Hand(s, a) == IF s.socket THEN [s EXCEPT !.handed = Append(@, a)] ELSE s

\* Faulty variant of AcceptStroke: the size test is off by one (> for >=)
AcceptStrokeLateFlush(s, a) ==
  LET t == [s EXCEPT !.lastStrokeSent = Now]
      c == getColorIndex(t.palette, t.colorPickerValue)
      microStroke == <<TypeCode(t.tool), c.idx, MathRound(Rat(t.brushSize)),
                       MathRound(a[1]), MathRound(a[2]), MathRound(a[3]), MathRound(a[4]),
                       t.colorPickerValue, t.currentStrokeId, t.microStrokeSequence>>
      b == [t EXCEPT !.palette = c.palette,
                     !.microStrokeSequence = t.microStrokeSequence + 1,
                     !.strokeBuffer = Append(t.strokeBuffer, microStroke),
                     !.accepted = Append(t.accepted,
                        [gap |-> Now - s.lastAccept, stroke |-> microStroke,
                         tag |-> <<a[5], a[6]>>]),
                     !.lastAccept = Now]
  IN IF Len(b.strokeBuffer) > BATCH_SIZE \/ Now - b.lastStrokeSent > URGENCY_SLACK
       THEN sendStrokeBatch(Via(b, "size"))
       ELSE LET k == IF b.batchTimer # 0 THEN clearTimeout(b, b.batchTimer) ELSE b
                id == NewTimerId(k)
            IN [setTimeout(k, "flush", BATCH_DELAY, <<>>) EXCEPT !.batchTimer = id]

\* Faulty variant of AcceptStroke: a pending flush timer is cleared and none
\* is armed in its place
AcceptStrokeUnarmed(s, a) ==
  LET t == [s EXCEPT !.lastStrokeSent = Now]
      c == getColorIndex(t.palette, t.colorPickerValue)
      microStroke == <<TypeCode(t.tool), c.idx, MathRound(Rat(t.brushSize)),
                       MathRound(a[1]), MathRound(a[2]), MathRound(a[3]), MathRound(a[4]),
                       t.colorPickerValue, t.currentStrokeId, t.microStrokeSequence>>
      b == [t EXCEPT !.palette = c.palette,
                     !.microStrokeSequence = t.microStrokeSequence + 1,
                     !.strokeBuffer = Append(t.strokeBuffer, microStroke),
                     !.accepted = Append(t.accepted,
                        [gap |-> Now - s.lastAccept, stroke |-> microStroke,
                         tag |-> <<a[5], a[6]>>]),
                     !.lastAccept = Now]
  IN IF Len(b.strokeBuffer) >= BATCH_SIZE \/ Now - b.lastStrokeSent > URGENCY_SLACK
       THEN sendStrokeBatch(Via(b, "size"))
       ELSE IF b.batchTimer # 0
              THEN [clearTimeout(b, b.batchTimer) EXCEPT !.batchTimer = 0]
              ELSE LET id == NewTimerId(b)
                   IN [setTimeout(b, "flush", BATCH_DELAY, <<>>) EXCEPT !.batchTimer = id]

\* sendRealtimeStroke: the part after the throttle let the segment through
AcceptStroke(s, a) ==
  LET t == [s EXCEPT !.lastStrokeSent = Now]
      c == getColorIndex(t.palette, t.colorPickerValue)
      microStroke == <<TypeCode(t.tool), c.idx, MathRound(Rat(t.brushSize)),
                       MathRound(a[1]), MathRound(a[2]), MathRound(a[3]), MathRound(a[4]),
                       t.colorPickerValue, t.currentStrokeId, t.microStrokeSequence>>
      b == [t EXCEPT !.palette = c.palette,
                     !.microStrokeSequence = t.microStrokeSequence + 1,
                     !.strokeBuffer = Append(t.strokeBuffer, microStroke),
                     !.accepted = Append(t.accepted,
                        [gap |-> Now - s.lastAccept, stroke |-> microStroke,
                         tag |-> <<a[5], a[6]>>]),
                     !.lastAccept = Now]
  IN IF Len(b.strokeBuffer) >= BATCH_SIZE \/ Now - b.lastStrokeSent > URGENCY_SLACK
       THEN sendStrokeBatch(Via(b, "size"))
       ELSE LET k == IF b.batchTimer # 0 THEN clearTimeout(b, b.batchTimer) ELSE b
                id == NewTimerId(k)
            IN [setTimeout(k, "flush", BATCH_DELAY, <<>>) EXCEPT !.batchTimer = id]

\* Faulty variant of sendRealtimeStroke: a throttled segment is dropped
sendRealtimeStrokeDropping(s, a) ==
  IF ~s.socket THEN s
  ELSE IF Now - s.lastStrokeSent < STROKE_THROTTLE
    THEN [s EXCEPT !.held = @ \cup {a}]
    ELSE AcceptStroke(s, a)

\* Faulty variant of sendRealtimeStroke: no throttle
sendRealtimeStrokeUnthrottled(s, a) ==
  IF ~s.socket THEN s ELSE AcceptStroke(s, a)

\* sendRealtimeStroke(x1, y1, x2, y2), a = <<x1, y1, x2, y2>>
sendRealtimeStroke(s, a) ==
  IF ~s.socket THEN s
  ELSE IF Now - s.lastStrokeSent < STROKE_THROTTLE
    THEN setTimeout([s EXCEPT !.held = @ \cup {a}], "retry", STROKE_THROTTLE, a)
    ELSE AcceptStroke(s, a)

\* initializeStrokeContext
initializeStrokeContext(s) ==
  LET width == s.brushSize
      color == s.colorPickerValue
      mode == IF s.tool = "eraser" THEN DESTINATION_OUT ELSE SOURCE_OVER
  IN [s EXCEPT !.ctx.lineWidth = width,
               !.ctx.globalCompositeOperation = mode,
               !.ctx.strokeStyle = IF s.tool # "eraser" THEN color ELSE @,
               !.lastContextColor = color,
               !.lastContextWidth = width,
               !.lastContextMode = mode]

\* updateContextIfNeeded
updateContextIfNeeded(s) ==
  LET currentColor == s.currentStroke[2]
      currentWidth == s.currentStroke[3]
      currentMode == IF s.currentStroke[1] = 1 THEN DESTINATION_OUT ELSE SOURCE_OVER
  IN IF \/ s.lastContextColor # currentColor
        \/ s.lastContextWidth # currentWidth
        \/ s.lastContextMode # currentMode
       THEN [s EXCEPT !.ctx.lineWidth = currentWidth,
                      !.ctx.globalCompositeOperation = currentMode,
                      !.ctx.strokeStyle = IF currentMode = SOURCE_OVER THEN currentColor ELSE @,
                      !.lastContextColor = currentColor,
                      !.lastContextWidth = currentWidth,
                      !.lastContextMode = currentMode]
       ELSE s

\* setCurrentStrokeId: assigns the id to currentStroke
setCurrentStrokeId(s, id) == [s EXCEPT !.currentStroke = id]

\* startDraw, the pointer at p = <<x, y>>
startDraw(s, p) ==
  LET x == p[1]
      y == p[2]
      g == [setCurrentStrokeId([s EXCEPT !.isDrawing = TRUE], s.gestures + 1)
              EXCEPT !.microStrokeSequence = 0, !.gestures = s.gestures + 1]
  IN IF g.tool = "fill"
       THEN LET fillColor == g.colorPickerValue
                f == [g EXCEPT !.data = floodFill(g.data, x, y, fillColor)]
                px == PixelAt(f.data, y * CanvasW + x)
                originalColor == rgbToHex(px[1], px[2], px[3])
                c == [f EXCEPT !.currentStroke = <<2, fillColor, x, y, originalColor>>,
                               !.strokes = Append(f.strokes,
                                                  <<2, fillColor, x, y, originalColor>>)]
            IN [sendRealtimeFill(c, x, y, fillColor, originalColor)
                  EXCEPT !.isDrawing = FALSE]
       ELSE LET c == [g EXCEPT !.currentStroke =
                        <<TypeCode(g.tool), g.colorPickerValue, g.brushSize, x, y>>]
            IN [initializeStrokeContext(c) EXCEPT !.ctx.path = <<p>>]

\* a || b on numbers: 0 is falsy
OrElse(a, b) == IF a # 0 THEN a ELSE b

\* history only: one more segment is generated, with the type, colour, width
\* and strokeId that sendRealtimeStroke would read in the state "at"
Generate(s, at) ==
  [s EXCEPT !.generated = @ + 1,
            !.styles = Append(@, <<TypeCode(at.tool), at.colorPickerValue,
                                   MathRound(Rat(at.brushSize)), at.currentStrokeId>>)]

\* draw: the interpolated sends, i = from..steps-1, each behind its own timer
RECURSIVE InterpTimers(_, _, _, _, _)
InterpTimers(s, prev, p, steps, i) ==
  IF i >= steps THEN s
  ELSE LET interpX == <<prev[1] * steps + (p[1] - prev[1]) * i, steps>>
           interpY == <<prev[2] * steps + (p[2] - prev[2]) * i, steps>>
           nextX == <<prev[1] * steps + (p[1] - prev[1]) * (i + 1), steps>>
           nextY == <<prev[2] * steps + (p[2] - prev[2]) * (i + 1), steps>>
       IN InterpTimers(setTimeout(Generate(s, s), "interp",
                                  i * INTERP_STAGGER,
                                  <<interpX, interpY, nextX, nextY,
                                    s.gestures, s.generated + 1>>),
                       prev, p, steps, i + 1)

\* Faulty variant of draw: the growing stroke is logged at every move
drawLogging(s, p) ==
  IF ~s.isDrawing THEN s
  ELSE LET n == Len(s.currentStroke)
           prevX == OrElse(s.currentStroke[n - 1], s.currentStroke[4])
           prevY == OrElse(s.currentStroke[n], s.currentStroke[5])
           d2 == (prevX - p[1]) * (prevX - p[1]) + (prevY - p[2]) * (prevY - p[2])
       IN IF d2 < 1 THEN s
          ELSE LET a == [s EXCEPT !.currentStroke = @ \o p,
                                      !.strokes = Append(@, s.currentStroke \o p)]
                   u == updateContextIfNeeded(a)
                   r == ctxStroke([u EXCEPT !.ctx.path = Append(@, p)])
                   seg == <<Rat(prevX), Rat(prevY), Rat(p[1]), Rat(p[2]),
                            s.gestures, s.generated + 1>>
                   t == sendRealtimeStroke(Hand(Generate(r, s), seg), seg)
               IN IF d2 > INTERP_THRESHOLD * INTERP_THRESHOLD
                    THEN InterpTimers(t, <<prevX, prevY>>, p,
                                      FloorSqrtDiv(d2, INTERP_STEP), 1)
                    ELSE t

\* draw, the pointer at p = <<x, y>>
draw(s, p) ==
  IF ~s.isDrawing THEN s
  ELSE LET n == Len(s.currentStroke)
           prevX == OrElse(s.currentStroke[n - 1], s.currentStroke[4])
           prevY == OrElse(s.currentStroke[n], s.currentStroke[5])
           d2 == (prevX - p[1]) * (prevX - p[1]) + (prevY - p[2]) * (prevY - p[2])
       IN IF d2 < 1 THEN s
          ELSE LET a == [s EXCEPT !.currentStroke = @ \o p]
                   u == updateContextIfNeeded(a)
                   r == ctxStroke([u EXCEPT !.ctx.path = Append(@, p)])
                   seg == <<Rat(prevX), Rat(prevY), Rat(p[1]), Rat(p[2]),
                            s.gestures, s.generated + 1>>
                   t == sendRealtimeStroke(Hand(Generate(r, s), seg), seg)
               IN IF d2 > INTERP_THRESHOLD * INTERP_THRESHOLD
                    THEN InterpTimers(t, <<prevX, prevY>>, p,
                                      FloorSqrtDiv(d2, INTERP_STEP), 1)
                    ELSE t

\* Faulty variant of endDraw: the buffer is left to the flush timer
endDrawNoFlush(s) ==
  IF ~s.isDrawing THEN s
  ELSE LET a == [s EXCEPT !.isDrawing = FALSE]
           b == IF a.currentStroke # <<>> /\ Len(a.currentStroke) >= 5
                  THEN [a EXCEPT !.strokes = Append(@, a.currentStroke)]
                  ELSE a
       IN [b EXCEPT !.currentStroke = <<>>]

\* faulty variant: ending the gesture clears the interpolation sends that are
\* still scheduled
endDrawCancelling(s) ==
  IF ~s.isDrawing THEN s
  ELSE LET a == [s EXCEPT !.isDrawing = FALSE,
                          !.timers = SelectSeq(@, LAMBDA t : t.kind # "interp")]
           b == IF a.currentStroke # <<>> /\ Len(a.currentStroke) >= 5
                  THEN [a EXCEPT !.strokes = Append(@, a.currentStroke)]
                  ELSE a
           c == IF Len(b.strokeBuffer) > 0 THEN sendStrokeBatch(Via(b, "endDraw")) ELSE b
       IN [c EXCEPT !.currentStroke = <<>>]

\* endDraw
endDraw(s) ==
  IF ~s.isDrawing THEN s
  ELSE LET a == [s EXCEPT !.isDrawing = FALSE]
           b == IF a.currentStroke # <<>> /\ Len(a.currentStroke) >= 5
                  THEN [a EXCEPT !.strokes = Append(@, a.currentStroke)]
                  ELSE a
           c == IF Len(b.strokeBuffer) > 0 THEN sendStrokeBatch(Via(b, "endDraw")) ELSE b
       IN [c EXCEPT !.currentStroke = <<>>]

\* setTool
setTool(s, tool) ==
  LET e == IF s.isDrawing /\ s.tool # tool THEN endDraw(s) ELSE s
  IN [e EXCEPT !.tool = tool]

\* setColorPickerValue
setColorPickerValue(s, val) ==
  LET a == [s EXCEPT !.colorPickerValue = val]
  IN IF a.isDrawing /\ a.currentStroke # <<>> /\ a.tool # "eraser" /\ a.tool # "fill"
       THEN [a EXCEPT !.currentStroke[2] = val]
       ELSE a

\* setBrushSize
setBrushSize(s, size) ==
  LET a == [s EXCEPT !.brushSize = size]
  IN IF a.isDrawing /\ a.currentStroke # <<>> /\ a.tool # "fill"
       THEN [a EXCEPT !.currentStroke[3] = size]
       ELSE a

\* Faulty variant of clearCanvas: the palette and the sequence counter are
\* reset with the drawing
clearCanvasResetting(s) ==
  sendCanvasClear([ctxClearRect(s) EXCEPT !.strokes = <<>>,
                                          !.palette = InitialPalette,
                                          !.microStrokeSequence = 0,
                                          !.cleared = Append(@, s.generated)])

\* clearCanvas
clearCanvas(s) ==
  sendCanvasClear([ctxClearRect(s) EXCEPT !.strokes = <<>>,
                                          !.cleared = Append(@, s.generated)])

\* setUpSocket with a socket object
setUpSocket(s) == [s EXCEPT !.socket = TRUE]

\* getMicroStrokesStyleData: the segments of one brush/eraser stroke,
\* points = the coordinates after [type, color, width], i the 0-based index
RECURSIVE StrokeSegments(_, _, _, _, _)
StrokeSegments(typeCode, colorIdx, w, points, i) ==
  IF i >= Len(points) - 2 THEN <<>>
  ELSE << <<typeCode, colorIdx, w,
            MathRound(Rat(points[i + 1])), MathRound(Rat(points[i + 2])),
            MathRound(Rat(points[i + 3])), MathRound(Rat(points[i + 4]))>> >>
       \o StrokeSegments(typeCode, colorIdx, w, points, i + 2)

\* getMicroStrokesStyleData: the micro-strokes of the strokes from the k-th on
\* and the palette afterwards
RECURSIVE MicroStrokesFrom(_, _, _)
MicroStrokesFrom(strokes, k, palette) ==
  IF k > Len(strokes) THEN [micro |-> <<>>, palette |-> palette]
  ELSE LET stroke == strokes[k]
           c == getColorIndex(palette, stroke[2])
           rest == MicroStrokesFrom(strokes, k + 1, c.palette)
           here == IF stroke[1] = 2
                     THEN << <<2, c.idx, MathRound(Rat(stroke[3])),
                               MathRound(Rat(stroke[4]))>> >>
                     ELSE StrokeSegments(stroke[1], c.idx, MathRound(Rat(stroke[3])),
                                         SubSeq(stroke, 4, Len(stroke)), 0)
       IN [micro |-> here \o rest.micro, palette |-> rest.palette]

\* getMicroStrokesStyleData
getMicroStrokesStyleData(s) == MicroStrokesFrom(s.strokes, 1, s.palette)

\* sendCompleteDrawing
sendCompleteDrawing(s) ==
  IF ~s.socket THEN s
  ELSE LET g == getMicroStrokesStyleData(s)
       IN Emit([s EXCEPT !.palette = g.palette], "drawing-sync",
               [strokes |-> g.micro, colorPalette |-> g.palette])

\* syncColorPalette
syncColorPalette(s) ==
  IF ~s.socket THEN s
  ELSE Emit(s, "color-palette-sync", [colorPalette |-> s.palette])

(***************************************************************************)
(* Remote apply.  A wire entry is the sequence of its fields.  Its text    *)
(* fields are the hex colours: fields 6 and 7 of an extended fill          *)
(* <<2, fillIdx, x, y, origIdx, fillHex, origHex>> and field 8 of an entry *)
(* of eight or more fields; every other field is a number.                 *)
(***************************************************************************)
IsText(m, i) ==
  \/ m[1] = 2 /\ Len(m) = 7 /\ i \in {6, 7}
  \/ Len(m) >= 8 /\ i = 8

\* context.lineWidth = width: zero and negative values are ignored
ctxSetLineWidth(s, width) ==
  IF width > 0 THEN [s EXCEPT !.ctx.lineWidth = width] ELSE s

\* context.moveTo / context.lineTo on the fields i, j of m: a call with an
\* argument that is not a number (NaN) does nothing
ctxPathTo(s, m, i, j) ==
  IF IsText(m, i) \/ IsText(m, j) THEN s
  ELSE [s EXCEPT !.ctx.path = Append(@, <<m[i], m[j]>>)]

\* faulty variant: the applied segment is added to the stroke log as well
applyMicroStrokeLogging(s, m) ==
  IF Len(m) >= 7
    THEN LET type == m[1]
             colorIdx == m[2]
             w == ctxSetLineWidth(s, m[3])
             c == IF type = 1
                    THEN [w EXCEPT !.ctx.globalCompositeOperation = DESTINATION_OUT]
                    ELSE [w EXCEPT !.ctx.globalCompositeOperation = SOURCE_OVER,
                                   !.ctx.strokeStyle =
                                      IF Len(m) >= 8 /\ m[8] # <<>>
                                        THEN m[8]
                                        ELSE indexToColor(s.palette, colorIdx)]
             b == [c EXCEPT !.ctx.path = <<>>]
             l == ctxPathTo(ctxPathTo(b, m, 4, 5), m, 6, 7)
         IN [ctxStroke(l) EXCEPT !.ctx.globalCompositeOperation = SOURCE_OVER,
                                 !.strokes = Append(@, SubSeq(m, 1, 7))]
    ELSE s

\* applyMicroStroke
applyMicroStroke(s, m) ==
  IF Len(m) >= 7
    THEN LET type == m[1]
             colorIdx == m[2]
             w == ctxSetLineWidth(s, m[3])
             c == IF type = 1
                    THEN [w EXCEPT !.ctx.globalCompositeOperation = DESTINATION_OUT]
                    ELSE [w EXCEPT !.ctx.globalCompositeOperation = SOURCE_OVER,
                                   !.ctx.strokeStyle =
                                      IF Len(m) >= 8 /\ m[8] # <<>>
                                        THEN m[8]
                                        ELSE indexToColor(s.palette, colorIdx)]
             b == [c EXCEPT !.ctx.path = <<>>]
             l == ctxPathTo(ctxPathTo(b, m, 4, 5), m, 6, 7)
         IN [ctxStroke(l) EXCEPT !.ctx.globalCompositeOperation = SOURCE_OVER]
    ELSE s

\* Faulty variant of CompareStrokes: -1 for entries that cannot be compared
CompareStrokesLess(a, b) ==
  IF Len(a) >= 10 /\ Len(b) >= 10
    THEN IF a[9] # b[9] THEN a[9] - b[9]
         ELSE OrElse(a[10], 0) - OrElse(b[10], 0)
    ELSE -1

\* the comparator given to sort in syncStrokeBatchData
CompareStrokes(a, b) ==
  IF Len(a) >= 10 /\ Len(b) >= 10
    THEN IF a[9] # b[9] THEN a[9] - b[9]
         ELSE OrElse(a[10], 0) - OrElse(b[10], 0)
    ELSE 0

(***************************************************************************)
(* Array.prototype.sort with that comparator.  The comparator is not a     *)
(* consistent ordering when entries without strokeId/sequence are present, *)
(* and the order such a sort produces is left to the engine; the engines   *)
(* modelled are V8 (run detection, then binary insertion), SpiderMonkey    *)
(* (insertion sort) and JavaScriptCore (bottom-up merge sort).  A sort     *)
(* works on an order: the sequence of the arrival positions (1-based) of   *)
(* the entries of the batch.                                               *)
(***************************************************************************)
Engines == {"v8", "spidermonkey", "jsc"}

\* comparefn on the entries at arrival positions i and j
Cmp(batch, i, j) == CompareStrokes(batch[i], batch[j])

Reverse(seq) == [k \in 1..Len(seq) |-> seq[Len(seq) + 1 - k]]

\* V8 CountAndMakeRun: the length of the run that starts the order, n of it
\* known so far
RECURSIVE RunLength(_, _, _, _)
RunLength(batch, ord, desc, n) ==
  IF n >= Len(ord) THEN n
  ELSE LET order == Cmp(batch, ord[n + 1], ord[n])
       IN IF (desc /\ order >= 0) \/ (~desc /\ order < 0) THEN n
          ELSE RunLength(batch, ord, desc, n + 1)

\* V8 BinaryInsertionSort: the 0-based place of pivot in ord[left..right-1]
RECURSIVE BinaryPlace(_, _, _, _, _)
BinaryPlace(batch, ord, pivot, left, right) ==
  IF left >= right THEN left
  ELSE LET mid == left + ((right - left) \div 2)
       IN IF Cmp(batch, pivot, ord[mid + 1]) < 0
            THEN BinaryPlace(batch, ord, pivot, left, mid)
            ELSE BinaryPlace(batch, ord, pivot, mid + 1, right)

\* V8 BinaryInsertionSort from the (1-based) position start on
RECURSIVE BinaryInsertionSort(_, _, _)
BinaryInsertionSort(batch, ord, start) ==
  IF start > Len(ord) THEN ord
  ELSE LET pivot == ord[start]
           left == BinaryPlace(batch, ord, pivot, 0, start - 1)
           placed == SubSeq(ord, 1, left) \o <<pivot>> \o SubSeq(ord, left + 1, start - 1)
                       \o SubSeq(ord, start + 1, Len(ord))
       IN BinaryInsertionSort(batch, placed, start + 1)

V8Sort(batch, ord) ==
  IF Len(ord) < 2 THEN ord
  ELSE LET desc == Cmp(batch, ord[2], ord[1]) < 0
           run == RunLength(batch, ord, desc, 2)
           made == IF desc
                     THEN Reverse(SubSeq(ord, 1, run)) \o SubSeq(ord, run + 1, Len(ord))
                     ELSE ord
       IN BinaryInsertionSort(batch, made, run + 1)

\* insertion sort: the (1-based) place of item among ord[1..j], scanning down
RECURSIVE LinearPlace(_, _, _, _)
LinearPlace(batch, ord, item, j) ==
  IF j < 1 \/ Cmp(batch, ord[j], item) <= 0 THEN j + 1
  ELSE LinearPlace(batch, ord, item, j - 1)

RECURSIVE InsertionSort(_, _, _)
InsertionSort(batch, ord, i) ==
  IF i > Len(ord) THEN ord
  ELSE LET item == ord[i]
           at == LinearPlace(batch, ord, item, i - 1)
           placed == SubSeq(ord, 1, at - 1) \o <<item>> \o SubSeq(ord, at, i - 1)
                       \o SubSeq(ord, i + 1, Len(ord))
       IN InsertionSort(batch, placed, i + 1)

\* merge of two sorted runs: the right head goes first only when it
\* compares below the left head
RECURSIVE Merge(_, _, _)
Merge(batch, l, r) ==
  IF l = <<>> THEN r
  ELSE IF r = <<>> THEN l
  ELSE IF Cmp(batch, l[1], r[1]) <= 0
    THEN <<l[1]>> \o Merge(batch, Tail(l), r)
    ELSE <<r[1]>> \o Merge(batch, l, Tail(r))

\* the largest power of two below n (n >= 2)
RECURSIVE SplitAt(_, _)
SplitAt(n, w) == IF 2 * w >= n THEN w ELSE SplitAt(n, 2 * w)

\* bottom-up merge sort: runs of width 1, 2, 4, ... are merged pairwise
RECURSIVE MergeSort(_, _)
MergeSort(batch, ord) ==
  IF Len(ord) < 2 THEN ord
  ELSE LET h == SplitAt(Len(ord), 1)
       IN Merge(batch, MergeSort(batch, SubSeq(ord, 1, h)),
                       MergeSort(batch, SubSeq(ord, h + 1, Len(ord))))

\* Faulty variant of SortOrder: the batch is left in arrival order
SortOrderUnsorted(batch, engine) == [k \in 1..Len(batch) |-> k]

\* stroeks.sort(comparefn): the order in which the engine leaves the batch
SortOrder(batch, engine) ==
  LET arrival == [k \in 1..Len(batch) |-> k]
  IN CASE engine = "v8" -> V8Sort(batch, arrival)
       [] engine = "spidermonkey" -> InsertionSort(batch, arrival, 2)
       [] engine = "jsc" -> MergeSort(batch, arrival)

\* syncStrokeBatchData: forEach(applyMicroStroke) over the sorted batch, from
\* the k-th on.  History: applied lists the arrival positions in the order
\* in which the entries were given to applyMicroStroke.
RECURSIVE ApplyFrom(_, _, _, _)
ApplyFrom(s, batch, ord, k) ==
  IF k > Len(ord) THEN s
  ELSE ApplyFrom([applyMicroStroke(s, batch[ord[k]]) EXCEPT !.applied = Append(@, ord[k])],
                 batch, ord, k + 1)

\* syncStrokeBatchData(stroeks) on the given engine.  History: inbox is the
\* batch as it arrived, batches counts the calls.
syncStrokeBatchData(s, batch, engine) ==
  ApplyFrom([s EXCEPT !.inbox = batch, !.applied = <<>>, !.batches = @ + 1],
            batch, SortOrder(batch, engine), 1)

\* syncSingleStorkes(stroke, type)
syncSingleStorkes(s, stroke, type) ==
  IF type = "fill"
    THEN LET x == stroke[3]
             y == stroke[4]
             actualFillColor == IF Len(stroke) >= 6 /\ stroke[6] # <<>>
                                  THEN stroke[6]
                                  ELSE indexToColor(s.palette, stroke[2])
             actualOrigColor == IF Len(stroke) >= 7 /\ stroke[7] # <<>>
                                  THEN stroke[7]
                                  ELSE IF Len(stroke) >= 5
                                         THEN indexToColor(s.palette, stroke[5])
                                         ELSE BLACK
         IN [s EXCEPT !.data = floodFill(s.data, x, y, actualFillColor),
                      !.strokes = Append(@, <<2, actualFillColor, x, y, actualOrigColor>>)]
    ELSE applyMicroStroke(s, stroke)

\* syncClearCanvas
syncClearCanvas(s) == [ctxClearRect(s) EXCEPT !.strokes = <<>>]

\* applyStrokesData: the forEach over the micro-strokes, from the k-th on
RECURSIVE ApplyStrokesFrom(_, _, _)
ApplyStrokesFrom(s, microStrokes, k) ==
  IF k > Len(microStrokes) THEN s
  ELSE LET micro == microStrokes[k]
           done ==
             IF Len(micro) = 4
               THEN [s EXCEPT !.data = floodFill(s.data, micro[3], micro[4],
                                                 indexToColor(s.palette, micro[2]))]
             ELSE IF Len(micro) = 7
               THEN LET w == ctxSetLineWidth(s, micro[3])
                        c == IF micro[1] = 1
                               THEN [w EXCEPT !.ctx.globalCompositeOperation = DESTINATION_OUT]
                               ELSE [w EXCEPT !.ctx.globalCompositeOperation = SOURCE_OVER,
                                              !.ctx.strokeStyle =
                                                 indexToColor(s.palette, micro[2])]
                        b == [c EXCEPT !.ctx.path = <<>>]
                    IN ctxStroke(ctxPathTo(ctxPathTo(b, micro, 4, 5), micro, 6, 7))
             ELSE s
       IN ApplyStrokesFrom(done, microStrokes, k + 1)

\* applyStrokesData
applyStrokesData(s, microStrokes) ==
  [ApplyStrokesFrom(ctxClearRect(s), microStrokes, 1)
     EXCEPT !.ctx.globalCompositeOperation = SOURCE_OVER]

\* syncDrawing(strokes).  History: inbox is the list as it arrived.
syncDrawing(s, strokes) ==
  applyStrokesData([ctxClearRect(s) EXCEPT !.strokes = <<>>, !.inbox = strokes,
                                           !.applied = <<>>],
                   strokes)

(***************************************************************************)
(* CommonUtilities.encodeDrawingBinary: the bytes of the Uint8Array and    *)
(* the palette afterwards (every colour goes through getColorIndex).       *)
(***************************************************************************)
\* n & 0xff and (n >> 8) & 0xff
LowByte(n) == n % 256
HighByte(n) == (n \div 256) % 256

\* Faulty variant of EncodeDeltas: a delta outside -128..127 is clamped
RECURSIVE EncodeDeltasClamping(_, _, _, _)
EncodeDeltasClamping(points, i, prevX, prevY) ==
  IF i >= Len(points) THEN <<>>
  ELSE LET x == MathRound(Rat(points[i + 1]))
           y == MathRound(Rat(points[i + 2]))
       IN <<LowByte(Min(127, Max(-128, x - prevX)) + 256),
            LowByte(Min(127, Max(-128, y - prevY)) + 256)>>
            \o EncodeDeltasClamping(points, i + 2, x, y)

\* Faulty variant of EncodeDeltas: every delta is taken from the first point
RECURSIVE EncodeDeltasFromFirst(_, _, _, _)
EncodeDeltasFromFirst(points, i, prevX, prevY) ==
  IF i >= Len(points) THEN <<>>
  ELSE LET x == MathRound(Rat(points[i + 1]))
           y == MathRound(Rat(points[i + 2]))
       IN <<LowByte((x - prevX) + 256), LowByte((y - prevY) + 256)>>
            \o EncodeDeltasFromFirst(points, i + 2, prevX, prevY)

\* the delta-encoded points after the first one, i the 0-based index
RECURSIVE EncodeDeltas(_, _, _, _)
EncodeDeltas(points, i, prevX, prevY) ==
  IF i >= Len(points) THEN <<>>
  ELSE LET x == MathRound(Rat(points[i + 1]))
           y == MathRound(Rat(points[i + 2]))
       IN <<LowByte((x - prevX) + 256), LowByte((y - prevY) + 256)>>
            \o EncodeDeltas(points, i + 2, x, y)

\* the bytes of one stroke and the palette afterwards
EncodeStroke(stroke, palette) ==
  IF stroke[1] = 2
    THEN LET f == getColorIndex(palette, stroke[2])
             x == MathRound(Rat(stroke[3]))
             y == MathRound(Rat(stroke[4]))
             o == getColorIndex(f.palette, stroke[5])
         IN [bytes |-> <<2, LowByte(f.idx), HighByte(x), LowByte(x),
                         HighByte(y), LowByte(y), LowByte(o.idx)>>,
             palette |-> o.palette]
    ELSE LET c == getColorIndex(palette, stroke[2])
             points == SubSeq(stroke, 4, Len(stroke))
             numPoints == Len(points) \div 2
             head == <<LowByte(stroke[1]), LowByte(c.idx),
                       Min(255, Max(0, MathRound(Rat(stroke[3])))),
                       HighByte(numPoints), LowByte(numPoints)>>
         IN IF numPoints = 0 THEN [bytes |-> head, palette |-> c.palette]
            ELSE LET prevX == MathRound(Rat(points[1]))
                     prevY == MathRound(Rat(points[2]))
                 IN [bytes |-> head \o <<HighByte(prevX), LowByte(prevX),
                                         HighByte(prevY), LowByte(prevY)>>
                                  \o EncodeDeltas(points, 2, prevX, prevY),
                     palette |-> c.palette]

\* strokes.forEach over the strokes lo..hi, in order; the range is halved so
\* that a list of several hundred strokes is evaluated at a small depth
RECURSIVE EncodeRange(_, _, _, _)
EncodeRange(strokes, lo, hi, palette) ==
  IF lo > hi THEN [bytes |-> <<>>, palette |-> palette]
  ELSE IF lo = hi THEN EncodeStroke(strokes[lo], palette)
  ELSE LET mid == (lo + hi) \div 2
           left == EncodeRange(strokes, lo, mid, palette)
           right == EncodeRange(strokes, mid + 1, hi, left.palette)
       IN [bytes |-> left.bytes \o right.bytes, palette |-> right.palette]

\* strokes.forEach, from the k-th stroke on
EncodeFrom(strokes, k, palette) == EncodeRange(strokes, k, Len(strokes), palette)

\* Faulty variant of encodeDrawingBinary: the count byte stops at 255
encodeDrawingBinarySaturating(strokes, palette) ==
  LET body == EncodeFrom(strokes, 1, palette)
  IN [bytes |-> <<1, Min(255, Len(strokes))>> \o body.bytes, palette |-> body.palette]

\* Faulty variant of encodeDrawingBinary: the palette is rebuilt from the
\* colours of the encoded strokes
encodeDrawingBinaryCompacting(strokes, palette) ==
  LET body == EncodeFrom(strokes, 1, InitialPalette)
  IN [bytes |-> <<1, LowByte(Len(strokes))>> \o body.bytes, palette |-> body.palette]

\* encodeDrawingBinary(strokes)
encodeDrawingBinary(strokes, palette) ==
  LET body == EncodeFrom(strokes, 1, palette)
  IN [bytes |-> <<1, LowByte(Len(strokes))>> \o body.bytes, palette |-> body.palette]

\* Faulty variant of exportData: the palette of the envelope is the palette
\* as it was before the strokes were encoded
exportDataEarlyPalette(s) ==
  LET e == encodeDrawingBinary(s.strokes, s.palette)
  IN [s EXCEPT !.exported = e.bytes]

\* exportData: the stroke log is encoded (the download belongs to the
\* browser).  History: exported is the binary data of the last export.
exportData(s) ==
  LET e == encodeDrawingBinary(s.strokes, s.palette)
  IN [s EXCEPT !.palette = e.palette, !.exported = e.bytes]

(***************************************************************************)
(* The decoder of the binary format.  The sources hold no decoder; this is *)
(* the one the format description gives: the header's count is trusted,    *)
(* 16-bit fields are unsigned and big-endian, a delta byte is a signed     *)
(* 8-bit value added to the previous point, colour indices are resolved    *)
(* through the palette handed to the decoder.                              *)
(***************************************************************************)
Signed8(b) == IF b >= 128 THEN b - 256 ELSE b
U16(hi, lo) == 256 * hi + lo

\* the k points after (x, y), read from position pos on
RECURSIVE DecodePoints(_, _, _, _, _)
DecodePoints(bytes, pos, k, x, y) ==
  IF k = 0 THEN <<>>
  ELSE LET nx == x + Signed8(bytes[pos])
           ny == y + Signed8(bytes[pos + 1])
       IN <<nx, ny>> \o DecodePoints(bytes, pos + 2, k - 1, nx, ny)

\* the stroke that starts at position pos, and the position after it
DecodeStroke(bytes, pos, palette) ==
  IF bytes[pos] = 2
    THEN [stroke |-> <<2, indexToColor(palette, bytes[pos + 1]),
                       U16(bytes[pos + 2], bytes[pos + 3]),
                       U16(bytes[pos + 4], bytes[pos + 5]),
                       indexToColor(palette, bytes[pos + 6])>>,
          next |-> pos + 7]
    ELSE LET numPoints == U16(bytes[pos + 3], bytes[pos + 4])
             head == <<bytes[pos], indexToColor(palette, bytes[pos + 1]), bytes[pos + 2]>>
         IN IF numPoints = 0 THEN [stroke |-> head, next |-> pos + 5]
            ELSE LET x == U16(bytes[pos + 5], bytes[pos + 6])
                     y == U16(bytes[pos + 7], bytes[pos + 8])
                 IN [stroke |-> head \o <<x, y>>
                                  \o DecodePoints(bytes, pos + 9, numPoints - 1, x, y),
                     next |-> pos + 9 + 2 * (numPoints - 1)]

\* n strokes from position pos on, and the position after them; the count
\* is halved so that several hundred strokes are evaluated at a small depth
RECURSIVE DecodeRange(_, _, _, _)
DecodeRange(bytes, pos, n, palette) ==
  IF n = 0 \/ pos > Len(bytes) THEN [strokes |-> <<>>, next |-> pos]
  ELSE IF n = 1
    THEN LET d == DecodeStroke(bytes, pos, palette)
         IN [strokes |-> <<d.stroke>>, next |-> d.next]
  ELSE LET left == DecodeRange(bytes, pos, n \div 2, palette)
           right == DecodeRange(bytes, left.next, n - (n \div 2), palette)
       IN [strokes |-> left.strokes \o right.strokes, next |-> right.next]

DecodeFrom(bytes, pos, n, palette) == DecodeRange(bytes, pos, n, palette).strokes

decodeDrawingBinary(bytes, palette) == DecodeFrom(bytes, 3, bytes[2], palette)

(***************************************************************************)
(* State.  wb is the whiteboard with its environment; nt is a second       *)
(* whiteboard that never gets a transport and receives the same user       *)
(* events as wb (specification SpecNT); used counts the user events.       *)
(*                                                                         *)
(* History fields of a whiteboard record (not fields of the source):       *)
(*   gestures   the number of startDraw calls                              *)
(*   handed     the segments handed to sendRealtimeStroke                  *)
(*   accepted   the micro-strokes pushed to the buffer, each with the time *)
(*              since the previous one was accepted                        *)
(*   lastAccept the relative time at which the last one was accepted       *)
(*   held       the segments the throttle has postponed                    *)
(*   sinceFlush whether a stroke-batch was emitted ("never"), and whether  *)
(*              a long idle period has passed since ("long") or not        *)
(*              ("recent")                                                 *)
(*   caller     what the next stroke-batch is emitted by; an emitted event *)
(*              carries it as "by"                                         *)
(*   inbox      the last batch given to syncStrokeBatchData, as it arrived *)
(*   applied    the arrival positions of its entries, in the order in      *)
(*              which they were given to applyMicroStroke                  *)
(*   batches    the number of syncStrokeBatchData calls                    *)
(*   exported   the binary data of the last exportData                     *)
(*   op, ops    the last operation <<name, arguments...>> that a           *)
(*              specification recorded, and the number of them             *)
(*   calls      the getColorIndex calls made on the palette directly, each *)
(*              with the index returned and whether the colour was turned  *)
(*              away by a full palette; the floodFill calls made on a      *)
(*              pixel buffer directly                                      *)
(*   flood      the local variables of a floodFill call that runs step by  *)
(*              step                                                       *)
(*   decoded    the stroke list a consumer decoded from exported           *)
(*   generated  the number of segments draw has generated; a segment       *)
(*              carries, after its coordinates, the number of the gesture  *)
(*              that generated it and its rank among the generated ones,   *)
(*              and an accepted micro-stroke carries them as "tag"         *)
(*   styles     for each generated segment, by rank, the type code, colour *)
(*              width and strokeId that were current when draw generated   *)
(*              it                                                         *)
(*   cleared    for each clearCanvas call, the number of segments that     *)
(*              draw had generated before it                               *)
(***************************************************************************)
VARIABLES wb, nt, used

vars == <<wb, nt, used>>

\* the object after the constructor ran (socket: whether one was passed)
NewWhiteboard(socket) ==
  [isDrawing |-> FALSE, tool |-> "brush", currentStroke |-> <<>>, strokes |-> <<>>,
   currentStrokeId |-> 0, microStrokeSequence |-> 0,
   colorPickerValue |-> BLACK, brushSize |-> 5,
   socket |-> socket, strokeBuffer |-> <<>>, batchTimer |-> 0,
   lastStrokeSent |-> -LongAgo,
   lastContextColor |-> <<>>, lastContextWidth |-> 0, lastContextMode |-> "",
   palette |-> InitialPalette,
   data |-> BlankData, ctx |-> InitialCtx, rendered |-> <<>>,
   timers |-> <<>>, emitted |-> <<>>,
   gestures |-> 0, handed |-> <<>>, accepted |-> <<>>,
   lastAccept |-> -LongAgo, held |-> {}, sinceFlush |-> "never", caller |-> "",
   inbox |-> <<>>, applied |-> <<>>, batches |-> 0,
   exported |-> <<>>, op |-> <<>>, ops |-> 0, calls |-> <<>>, flood |-> <<>>,
   decoded |-> <<>>, generated |-> 0, styles |-> <<>>,
   cleared |-> <<>>]

NoUse == [starts |-> 0, draws |-> 0, tools |-> 0, misc |-> 0]

GREEN == InitialPalette[4]

\* wire entries a peer may send: segments with strokeId and sequence ...
SegA == <<0, 0, 1, 0, 0, 1, 0, BLACK, 5, 0>>
SegB == <<1, 0, 1, 1, 0, 2, 0, BLACK, 5, 1>>
SegC == <<0, 2, 1, 2, 0, 2, 1, RED, 5, 2>>
SegD == <<0, 1, 1, 0, 1, 1, 1, WHITE, 4, 3>>
\* ... segments without them (7 fields; 8 fields with the hex colour) ...
Plain7 == <<0, 2, 1, 0, 0, 0, 1>>
Plain8 == <<0, 0, 2, 1, 1, 2, 1, TEAL>>
\* ... and fills (4 fields; 7 fields as sendRealtimeFill builds them)
Fill4 == <<2, 2, 1, 1>>
Fill7 == <<2, 3, 0, 1, 0, GREEN, BLACK>>

WireEntries == {SegA, SegB, SegC, SegD, Plain7, Plain8, Fill4, Fill7}

\* entries with a wrong field count: a fill of 5 fields, a segment without y2
Short5 == <<2, 3, 0, 1, 0>>
Short6 == <<0, 2, 1, 0, 0, 1>>

WireBatches == UNION {[1..n -> WireEntries] : n \in 1..MaxBatchLen}

\* pointer positions: startDraw inside the canvas, draw anywhere
StartPoints == {<<1, 1>>}
MovePoints == {<<2, 1>>, <<0, 1>>, <<22, 1>>}
Tools == {"brush", "eraser"}

Init ==
  /\ wb \in {NewWhiteboard(FALSE), NewWhiteboard(TRUE)}
  /\ nt = NewWhiteboard(FALSE)
  /\ used = NoUse

(***************************************************************************)
(* The passage of time and the event loop.                                 *)
(***************************************************************************)
Age(t, d) == IF t <= -LongAgo \/ d >= LongAgo THEN -LongAgo ELSE Max(t - d, -Horizon)

\* d time units pass
Elapse(s, d) ==
  [s EXCEPT !.lastStrokeSent = Age(@, d),
            !.lastAccept = Age(@, d),
            !.sinceFlush = IF @ = "recent" /\ d >= LongAgo THEN "long" ELSE @,
            !.timers = [k \in 1..Len(s.timers) |->
                          [s.timers[k] EXCEPT !.due = Max(@ - d, 0)]]]

\* a timer runs when it is due and no timer created before it with an equal or
\* smaller delay is still waiting
CanFire(s, i) ==
  /\ s.timers[i].due <= Now
  /\ \A j \in 1..(i - 1) : s.timers[j].ms > s.timers[i].ms

\* the callback of timer t
RunTimer(s, t) ==
  CASE t.kind = "flush" -> sendStrokeBatch(Via(s, "timer"))
    [] t.kind = "retry" -> sendRealtimeStroke(s, t.args)
    [] t.kind = "interp" -> sendRealtimeStroke(Hand(s, t.args), t.args)

\* the i-th pending timer fires
FireTimerOf(s, i) == RunTimer([s EXCEPT !.timers = RemoveAt(@, i)], s.timers[i])

Tick ==
  /\ wb' = Elapse(wb, TickUnit)
  /\ wb' # wb
  /\ UNCHANGED <<nt, used>>

\* a long quiet period: no timer is waiting, nothing happens for LongAgo units
Idle ==
  /\ wb.timers = <<>>
  /\ wb' = Elapse(wb, LongAgo)
  /\ wb' # wb
  /\ UNCHANGED <<nt, used>>

FireFlush ==
  \E i \in 1..Len(wb.timers) :
    /\ wb.timers[i].kind = "flush"
    /\ CanFire(wb, i)
    /\ wb' = FireTimerOf(wb, i)
    /\ UNCHANGED <<nt, used>>

FireSend ==
  \E i \in 1..Len(wb.timers) :
    /\ wb.timers[i].kind # "flush"
    /\ CanFire(wb, i)
    /\ wb' = FireTimerOf(wb, i)
    /\ UNCHANGED <<nt, used>>

(***************************************************************************)
(* The user's events and the public methods.                               *)
(***************************************************************************)
StartDraw ==
  /\ used.starts < MaxStarts
  /\ \E p \in StartPoints : wb' = startDraw(wb, p)
  /\ used' = [used EXCEPT !.starts = @ + 1]
  /\ UNCHANGED nt

Draw ==
  /\ used.draws < MaxDraws
  /\ wb.isDrawing
  /\ \E p \in MovePoints : wb' = draw(wb, p)
  /\ used' = [used EXCEPT !.draws = @ + 1]
  /\ UNCHANGED nt

EndDraw ==
  /\ wb.isDrawing
  /\ wb' = endDraw(wb)
  /\ UNCHANGED <<nt, used>>

SetTool ==
  /\ used.tools < MaxTools
  /\ \E t \in Tools : t # wb.tool /\ wb' = setTool(wb, t)
  /\ used' = [used EXCEPT !.tools = @ + 1]
  /\ UNCHANGED nt

ClearCanvas ==
  /\ used.misc < MaxMisc
  /\ wb' = Op(clearCanvas(wb), <<"clearCanvas">>)
  /\ used' = [used EXCEPT !.misc = @ + 1]
  /\ UNCHANGED nt

SetUpSocket ==
  /\ ~wb.socket
  /\ wb' = setUpSocket(wb)
  /\ UNCHANGED <<nt, used>>

Next ==
  \/ Tick
  \/ Idle
  \/ FireFlush
  \/ FireSend
  \/ StartDraw
  \/ Draw
  \/ EndDraw
  \/ SetTool
  \/ SetUpSocket

Spec == Init /\ [][Next]_vars

(***************************************************************************)
(* Two whiteboards side by side: wb was constructed with a transport, nt   *)
(* without one.  Both receive the same user events and method calls; time  *)
(* passes for both, and each one's timers fire on their own.  Here the     *)
(* event loop runs the timers that are due before it delivers the next     *)
(* user event, and time passes in units of BATCH_DELAY (timers that run    *)
(* late are the subject of Spec).                                          *)
(***************************************************************************)
AllTools == {"brush", "eraser", "fill"}

\* no timer of either whiteboard is due
NoTimerDue ==
  /\ \A i \in 1..Len(wb.timers) : wb.timers[i].due > Now
  /\ \A i \in 1..Len(nt.timers) : nt.timers[i].due > Now

InitNT ==
  /\ wb = NewWhiteboard(TRUE)
  /\ nt = NewWhiteboard(FALSE)
  /\ used = NoUse

NTStartDraw ==
  /\ NoTimerDue
  /\ used.starts < MaxGestures
  /\ \E p \in StartPoints : wb' = startDraw(wb, p) /\ nt' = startDraw(nt, p)
  /\ used' = [used EXCEPT !.starts = @ + 1]

NTDraw ==
  /\ NoTimerDue
  /\ used.draws < MaxDraws
  /\ wb.isDrawing \/ nt.isDrawing
  /\ \E p \in MovePoints : wb' = draw(wb, p) /\ nt' = draw(nt, p)
  /\ used' = [used EXCEPT !.draws = @ + 1]

NTEndDraw ==
  /\ NoTimerDue
  /\ wb.isDrawing \/ nt.isDrawing
  /\ wb' = endDraw(wb)
  /\ nt' = endDraw(nt)
  /\ UNCHANGED used

NTSetTool ==
  /\ NoTimerDue
  /\ used.tools < MaxTools
  /\ \E t \in AllTools :
       /\ t # wb.tool \/ t # nt.tool
       /\ wb' = setTool(wb, t)
       /\ nt' = setTool(nt, t)
  /\ used' = [used EXCEPT !.tools = @ + 1]

NTClearCanvas ==
  /\ NoTimerDue
  /\ used.misc < MaxMisc
  /\ wb' = clearCanvas(wb)
  /\ nt' = clearCanvas(nt)
  /\ used' = [used EXCEPT !.misc = @ + 1]

NTSendCompleteDrawing ==
  /\ NoTimerDue
  /\ used.misc < MaxMisc
  /\ wb' = sendCompleteDrawing(wb)
  /\ nt' = sendCompleteDrawing(nt)
  /\ used' = [used EXCEPT !.misc = @ + 1]

NTSyncColorPalette ==
  /\ NoTimerDue
  /\ used.misc < MaxMisc
  /\ wb' = syncColorPalette(wb)
  /\ nt' = syncColorPalette(nt)
  /\ used' = [used EXCEPT !.misc = @ + 1]

\* BATCH_DELAY time units pass: every pending timer becomes due
NTTick ==
  /\ NoTimerDue
  /\ wb' = Elapse(wb, BATCH_DELAY)
  /\ nt' = Elapse(nt, BATCH_DELAY)
  /\ wb' # wb \/ nt' # nt
  /\ UNCHANGED used

\* a timer of the whiteboard with the transport fires
NTFire ==
  \E i \in 1..Len(wb.timers) :
    /\ CanFire(wb, i)
    /\ wb' = FireTimerOf(wb, i)
    /\ UNCHANGED <<nt, used>>

\* a timer of the whiteboard without a transport fires
NTFireNT ==
  \E i \in 1..Len(nt.timers) :
    /\ CanFire(nt, i)
    /\ nt' = FireTimerOf(nt, i)
    /\ UNCHANGED <<wb, used>>

NextNT ==
  \/ NTStartDraw
  \/ NTDraw
  \/ NTEndDraw
  \/ NTSetTool
  \/ NTClearCanvas
  \/ NTSendCompleteDrawing
  \/ NTSyncColorPalette
  \/ NTTick
  \/ NTFire
  \/ NTFireNT

SpecNT == InitNT /\ [][NextNT]_vars

(***************************************************************************)
(* A whiteboard that receives from its peers: single strokes and fills,    *)
(* clears and batches of micro-strokes arrive and are applied.             *)
(***************************************************************************)
InitSync ==
  /\ wb = NewWhiteboard(TRUE)
  /\ nt = NewWhiteboard(FALSE)
  /\ used = NoUse

SyncStrokeBatchData ==
  /\ wb.batches < MaxBatches
  /\ \E batch \in WireBatches : \E engine \in Engines :
       wb' = syncStrokeBatchData(wb, batch, engine)
  /\ UNCHANGED <<nt, used>>

SyncSingleStorkes ==
  /\ used.misc < MaxMisc
  /\ \/ \E stroke \in {Fill4, Fill7} : wb' = syncSingleStorkes(wb, stroke, "fill")
     \/ \E stroke \in {SegC, Plain7} : wb' = syncSingleStorkes(wb, stroke, "brush")
  /\ used' = [used EXCEPT !.misc = @ + 1]
  /\ UNCHANGED nt

SyncClearCanvas ==
  /\ used.misc < MaxMisc
  /\ wb' = syncClearCanvas(wb)
  /\ used' = [used EXCEPT !.misc = @ + 1]
  /\ UNCHANGED nt

NextSync ==
  \/ SyncStrokeBatchData
  \/ SyncSingleStorkes
  \/ SyncClearCanvas

SpecSync == InitSync /\ [][NextSync]_vars

(***************************************************************************)
(* A session: local gestures next to the public methods and the sync*      *)
(* methods the transport handler calls.  The palette is static, so a       *)
(* whiteboard may be constructed when earlier whiteboards of the page have *)
(* filled it.  Every method call is recorded in op / ops.  The events of   *)
(* a session arrive within one time unit: no timer becomes due (timers     *)
(* that fire, on time and late, are the subject of Spec and SpecNT).       *)
(***************************************************************************)
\* the n-th colour an earlier whiteboard registered
ExtraColor(n) ==
  Hex("1", "2", "a", LowerDigits[(n \div 256) + 1], LowerDigits[((n \div 16) % 16) + 1],
      LowerDigits[(n % 16) + 1])

\* the palette after getColorIndex was called with the first n of them (each
\* is new to the palette, so each is appended)
PaletteWith(n) == InitialPalette \o [k \in 1..n |-> ExtraColor(k)]

FullPalette == PaletteWith(PALETTE_CAP - Len(InitialPalette))

ApplyEntries == {SegA, SegB, Plain7, Plain8, Fill4, Fill7, Short5, Short6}

ApplyLists == UNION {[1..n -> ApplyEntries] : n \in 1..MaxListLen}

PickerColors == {TEAL}

InitApply ==
  /\ \E socket \in BOOLEAN : \E palette \in {InitialPalette, FullPalette} :
       wb = [NewWhiteboard(socket) EXCEPT !.palette = palette]
  /\ nt = NewWhiteboard(FALSE)
  /\ used = NoUse

SetColorPickerValue ==
  /\ used.tools < MaxTools
  /\ \E c \in PickerColors : c # wb.colorPickerValue /\ wb' = setColorPickerValue(wb, c)
  /\ used' = [used EXCEPT !.tools = @ + 1]
  /\ UNCHANGED nt

ExportData ==
  /\ used.misc < MaxMisc
  /\ wb' = Op(exportData(wb), <<"exportData">>)
  /\ used' = [used EXCEPT !.misc = @ + 1]
  /\ UNCHANGED nt

SendCompleteDrawing ==
  /\ used.misc < MaxMisc
  /\ wb' = Op(sendCompleteDrawing(wb), <<"sendCompleteDrawing">>)
  /\ used' = [used EXCEPT !.misc = @ + 1]
  /\ UNCHANGED nt

ApplySingle ==
  /\ used.misc < MaxMisc
  /\ \/ \E stroke \in {Fill4, Fill7, Short5} :
          wb' = Op(syncSingleStorkes(wb, stroke, "fill"), <<"syncSingleStorkes", stroke, "fill">>)
     \/ \E stroke \in {SegA, SegB, Plain7, Plain8, Short6} :
          wb' = Op(syncSingleStorkes(wb, stroke, "brush"),
                   <<"syncSingleStorkes", stroke, "brush">>)
  /\ used' = [used EXCEPT !.misc = @ + 1]
  /\ UNCHANGED nt

ApplyBatch ==
  /\ used.misc < MaxMisc
  /\ \E batch \in ApplyLists : \E engine \in Engines :
       wb' = Op(syncStrokeBatchData(wb, batch, engine), <<"syncStrokeBatchData", batch>>)
  /\ used' = [used EXCEPT !.misc = @ + 1]
  /\ UNCHANGED nt

ApplyDrawing ==
  /\ used.misc < MaxMisc
  /\ \E strokes \in ApplyLists :
       wb' = Op(syncDrawing(wb, strokes), <<"syncDrawing", strokes>>)
  /\ used' = [used EXCEPT !.misc = @ + 1]
  /\ UNCHANGED nt

ApplyClear ==
  /\ used.misc < MaxMisc
  /\ wb' = Op(syncClearCanvas(wb), <<"syncClearCanvas">>)
  /\ used' = [used EXCEPT !.misc = @ + 1]
  /\ UNCHANGED nt

NextApply ==
  \/ StartDraw
  \/ Draw
  \/ EndDraw
  \/ SetColorPickerValue
  \/ ClearCanvas
  \/ ExportData
  \/ SendCompleteDrawing
  \/ ApplySingle
  \/ ApplyBatch
  \/ ApplyDrawing
  \/ ApplyClear

SpecApply == InitApply /\ [][NextApply]_vars

(***************************************************************************)
(* The palette on its own: getColorIndex and indexToColor are called on    *)
(* the static palette, which holds its initial colours or was filled up to *)
(* (or close to) its capacity before.                                      *)
(***************************************************************************)
MAGENTA == InitialPalette[7]
\* red in lower case: a string the palette does not hold
LOWRED == Hex("f", "f", "0", "0", "0", "0")

StartPalettes ==
  {InitialPalette, PaletteWith(PALETTE_CAP - Len(InitialPalette) - 2),
   PaletteWith(PALETTE_CAP - Len(InitialPalette) - 1), FullPalette}

PaletteColors == {BLACK, MAGENTA, TEAL, LOWRED, ExtraColor(1)}

LookupIndices == {-1, 0, 6, Len(InitialPalette), PALETTE_CAP - 2, PALETTE_CAP - 1, PALETTE_CAP}

InitPalette ==
  /\ \E palette \in StartPalettes : wb = [NewWhiteboard(FALSE) EXCEPT !.palette = palette]
  /\ nt = NewWhiteboard(FALSE)
  /\ used = NoUse

\* CommonUtilities.getColorIndex(color) is called.  History: the call, its
\* result, whether the palette held the colour and how long the palette was
GetColorIndex ==
  /\ Len(wb.calls) < MaxCalls
  /\ \E color \in PaletteColors :
       LET r == getColorIndex(wb.palette, color)
       IN wb' = [wb EXCEPT !.palette = r.palette,
                           !.calls = Append(@, [color |-> color, idx |-> r.idx,
                                                had |-> IndexOf(wb.palette, color) # -1,
                                                len |-> Len(wb.palette)])]
  /\ UNCHANGED <<nt, used>>

\* CommonUtilities.indexToColor(idx) is called.  History: op is the call with
\* its result and the length of the palette
IndexToColor ==
  /\ \E idx \in LookupIndices :
       wb' = [wb EXCEPT !.op = <<"indexToColor", idx, indexToColor(wb.palette, idx),
                                 Len(wb.palette)>>]
  /\ UNCHANGED <<nt, used>>

NextPalette ==
  \/ GetColorIndex
  \/ IndexToColor

SpecPalette == InitPalette /\ [][NextPalette]_vars

(***************************************************************************)
(* floodFill on its own: the canvas holds any picture of opaque,           *)
(* half-transparent and transparent pixels, and floodFill is called with   *)
(* any seed inside the canvas.  History: calls lists, for every call, the  *)
(* pixel buffer before it, the seed and the colour.                        *)
(***************************************************************************)
OPAQUE_RED == <<255, 0, 0, 255>>
HALF_RED == <<255, 0, 0, 128>>
PixelValues == {TRANSPARENT, OPAQUE_RED, HALF_RED}
StartData == [1..(CanvasW * CanvasH) -> PixelValues]
FillColors == {RED, BLACK}

InitFill ==
  /\ \E data \in StartData : wb = [NewWhiteboard(FALSE) EXCEPT !.data = data]
  /\ nt = NewWhiteboard(FALSE)
  /\ used = NoUse

\* floodFill(x, y, fillColor) is called
FloodFill ==
  /\ Len(wb.calls) < MaxFills
  /\ \E x \in 0..(CanvasW - 1), y \in 0..(CanvasH - 1), color \in FillColors :
       wb' = [wb EXCEPT !.data = floodFill(wb.data, x, y, color),
                        !.calls = Append(@, [before |-> wb.data, x |-> x, y |-> y,
                                             color |-> color])]
  /\ UNCHANGED <<nt, used>>

NextFill == FloodFill

SpecFill == InitFill /\ [][NextFill]_vars

(***************************************************************************)
(* Several gestures of one whiteboard with a transport: the user's events  *)
(* and the passing of time, with up to MaxGestures startDraw events.       *)
(***************************************************************************)
InitGestures ==
  /\ wb = NewWhiteboard(TRUE)
  /\ nt = NewWhiteboard(FALSE)
  /\ used = NoUse

\* mousedown: startDraw, for the first or a later gesture
NextGesture ==
  /\ used.starts < MaxGestures
  /\ \E p \in StartPoints : wb' = startDraw(wb, p)
  /\ used' = [used EXCEPT !.starts = @ + 1]
  /\ UNCHANGED nt

NextGestures ==
  \/ Tick
  \/ Idle
  \/ FireFlush
  \/ FireSend
  \/ NextGesture
  \/ Draw
  \/ EndDraw

SpecGestures == InitGestures /\ [][NextGestures]_vars

(***************************************************************************)
(* floodFill step by step: one call on any picture, with a seed inside the *)
(* canvas or one pixel outside it on any side.  wb.flood holds the local   *)
(* variables of the call: the position in the method (pc), imageData.data  *)
(* (data), queue, visited, the seed's value (start) and the fill value.    *)
(* History: the canvas before the call, the arguments, and painted, the    *)
(* number of times each pixel was written.                                 *)
(***************************************************************************)
SeedXs == (-1)..CanvasW
SeedYs == (-1)..CanvasH
FloodColors == {RED}

NoFlood == [pc |-> "idle"]

\* floodFill up to the while loop: the seed's value is read, the call
\* returns when it is the fill colour with alpha 255, else the seed is queued
FloodEnter(data, x, y, fillColor) ==
  LET start == PixelAt(data, y * CanvasW + x)
      rgb == hexToRgb(fillColor)
      fill == <<rgb.r, rgb.g, rgb.b, 255>>
  IN [pc |-> IF start = fill THEN "done" ELSE "loop",
      data |-> data, queue |-> << <<x, y>> >>, visited |-> {},
      start |-> start, fill |-> fill,
      before |-> data, x |-> x, y |-> y, color |-> fillColor,
      painted |-> [i \in 1..Len(data) |-> 0]]

\* Faulty variant of FloodVisit: a coordinate outside the canvas is not skipped
FloodVisitUnbounded(f) ==
  LET c == Head(f.queue)
      cx == c[1]
      cy == c[2]
      rest == Tail(f.queue)
      index == cy * CanvasW + cx
  IN IF c \in f.visited
       THEN [f EXCEPT !.queue = rest]
       ELSE IF PixelAt(f.data, index) = f.start /\ index \in 0..(Len(f.data) - 1)
              THEN [f EXCEPT !.data[index + 1] = f.fill,
                             !.painted[index + 1] = @ + 1,
                             !.queue = rest \o << <<cx + 1, cy>>, <<cx - 1, cy>>,
                                                  <<cx, cy + 1>>, <<cx, cy - 1>> >>,
                             !.visited = @ \cup {c}]
              ELSE [f EXCEPT !.queue = rest, !.visited = @ \cup {c}]

\* one iteration of the while loop of floodFill
FloodVisit(f) ==
  LET c == Head(f.queue)
      cx == c[1]
      cy == c[2]
      rest == Tail(f.queue)
      index == cy * CanvasW + cx
  IN IF c \in f.visited \/ cx < 0 \/ cx >= CanvasW \/ cy < 0 \/ cy >= CanvasH
       THEN [f EXCEPT !.queue = rest]
       ELSE IF PixelAt(f.data, index) = f.start
              THEN [f EXCEPT !.data[index + 1] = f.fill,
                             !.painted[index + 1] = @ + 1,
                             !.queue = rest \o << <<cx + 1, cy>>, <<cx - 1, cy>>,
                                                  <<cx, cy + 1>>, <<cx, cy - 1>> >>,
                             !.visited = @ \cup {c}]
              ELSE [f EXCEPT !.queue = rest, !.visited = @ \cup {c}]

InitFlood ==
  /\ \E data \in StartData :
       wb = [NewWhiteboard(FALSE) EXCEPT !.data = data, !.flood = NoFlood]
  /\ nt = NewWhiteboard(FALSE)
  /\ used = NoUse

\* floodFill(x, y, fillColor) is called
FloodCall ==
  /\ wb.flood.pc = "idle"
  /\ \E x \in SeedXs, y \in SeedYs, color \in FloodColors :
       wb' = [wb EXCEPT !.flood = FloodEnter(wb.data, x, y, color)]
  /\ UNCHANGED <<nt, used>>

\* the while loop runs one iteration
FloodStep ==
  /\ wb.flood.pc = "loop"
  /\ Len(wb.flood.queue) > 0
  /\ wb' = [wb EXCEPT !.flood = FloodVisit(wb.flood)]
  /\ UNCHANGED <<nt, used>>

\* the queue is empty: putImageData, and the call returns
FloodReturn ==
  /\ wb.flood.pc = "loop"
  /\ Len(wb.flood.queue) = 0
  /\ wb' = [wb EXCEPT !.data = wb.flood.data, !.flood.pc = "done"]
  /\ UNCHANGED <<nt, used>>

NextFlood ==
  \/ FloodCall
  \/ FloodStep
  \/ FloodReturn

\* floodFill is synchronous code: once called, it runs on
SpecFlood ==
  /\ InitFlood
  /\ [][NextFlood]_vars
  /\ WF_vars(FloodStep)
  /\ WF_vars(FloodReturn)

(***************************************************************************)
(* The codec on its own: a whiteboard whose stroke log holds any list of   *)
(* the strokes below exports it once, and a consumer decodes the exported  *)
(* bytes with the palette of the envelope (meta.colorPalette, the palette  *)
(* as exportData leaves it).  The palette at the start is the initial one, *)
(* one with a single free slot, or a full one.                             *)
(***************************************************************************)
\* [0, "#FF0000", 5, 100,150, 105,155]
StrokeExample == <<0, RED, 5, 100, 150, 105, 155>>
\* deltas of -128 and 127, the ends of the signed 8-bit range
StrokeEdge == <<1, BLACK, 5, 200, 10, 72, 137, 199, 9>>
\* a colour that the initial palette does not hold, coordinates above 255
StrokeNew == <<0, TEAL, 12, 300, 2, 301, 1>>
\* a fill in a colour that the initial palette does not hold
StrokeFill == <<2, ExtraColor(4000), 260, 1, WHITE>>
\* a width above 255
StrokeWide == <<0, BLACK, 300, 1, 1, 2, 2>>
\* a delta of 200 followed by a small one, and a delta of -200
StrokeFar == <<0, BLACK, 5, 10, 10, 210, 10, 215, 12>>
StrokeBack == <<1, WHITE, 5, 300, 0, 100, 0>>
\* a delta of 200 followed by a delta of -200
StrokeSweep == <<0, BLACK, 5, 10, 10, 210, 10, 10, 10>>

CodecStrokes ==
  {StrokeExample, StrokeEdge, StrokeNew, StrokeFill, StrokeWide, StrokeFar, StrokeBack,
   StrokeSweep}

\* a list of n fills
ManyStrokes(n) == [k \in 1..n |-> <<2, RED, k, 1, WHITE>>]

CodecLists ==
  UNION {[1..n -> CodecStrokes] : n \in 0..MaxStrokes}
    \cup {ManyStrokes(COUNT_RANGE - 1), ManyStrokes(COUNT_RANGE),
          ManyStrokes(COUNT_RANGE + 1)}

CodecPalettes == {InitialPalette, PaletteWith(PALETTE_CAP - Len(InitialPalette) - 1),
                  FullPalette}

InitCodec ==
  /\ \E strokes \in CodecLists, palette \in CodecPalettes :
       wb = [NewWhiteboard(FALSE) EXCEPT !.strokes = strokes, !.palette = palette]
  /\ nt = NewWhiteboard(FALSE)
  /\ used = NoUse

\* exportData is called.  History: op holds the palette as it was before
ExportOnce ==
  /\ wb.ops = 0
  /\ wb' = Op(exportData(wb), <<"exportData", wb.palette>>)
  /\ UNCHANGED <<nt, used>>

\* a consumer decodes the envelope
DecodeExport ==
  /\ wb.ops = 1
  /\ wb' = Op([wb EXCEPT !.decoded = decodeDrawingBinary(wb.exported, wb.palette)],
              <<"decode", wb.op[2]>>)
  /\ UNCHANGED <<nt, used>>

NextCodec ==
  \/ ExportOnce
  \/ DecodeExport

SpecCodec == InitCodec /\ [][NextCodec]_vars


\* A whiteboard constructed with a transport that stays attached; the event
\* loop runs every timer that is due, and time goes on.
InitLive ==
  /\ wb = NewWhiteboard(TRUE)
  /\ nt = NewWhiteboard(FALSE)
  /\ used = NoUse

NextLive ==
  \/ Tick
  \/ Idle
  \/ FireFlush
  \/ FireSend
  \/ StartDraw
  \/ Draw
  \/ EndDraw

SpecLive ==
  /\ InitLive
  /\ [][NextLive]_vars
  /\ WF_vars(Tick)
  /\ WF_vars(FireFlush)
  /\ WF_vars(FireSend)

(***************************************************************************)
(* Observations used by the properties.                                    *)
(***************************************************************************)
RECURSIVE Flatten(_)
Flatten(seqs) == IF seqs = <<>> THEN <<>> ELSE Head(seqs) \o Flatten(Tail(seqs))

IsBatch(e) == e.event = "stroke-batch"

\* the stroke-batch events emitted so far, and the micro-strokes in them
Batches(s) == SelectSeq(s.emitted, IsBatch)
BatchedStrokes(s) == Flatten([i \in 1..Len(Batches(s)) |-> Batches(s)[i].payload])

\* the wire coordinates of a micro-stroke / of a segment handed to the sender
WireCoords(m) == <<m[4], m[5], m[6], m[7]>>
RoundedSeg(a) == <<MathRound(a[1]), MathRound(a[2]), MathRound(a[3]), MathRound(a[4])>>

Count(seq, x) == Cardinality({i \in 1..Len(seq) : seq[i] = x})

HandedCoords(s) == [i \in 1..Len(s.handed) |-> RoundedSeg(s.handed[i])]
BatchedCoords(s) == [i \in 1..Len(BatchedStrokes(s)) |-> WireCoords(BatchedStrokes(s)[i])]

FlushTimers(s) == {i \in 1..Len(s.timers) : s.timers[i].kind = "flush"}
RetryTimers(s) == {i \in 1..Len(s.timers) : s.timers[i].kind = "retry"}

\* this step accepted a segment into the outgoing buffer
AcceptStep == Len(wb'.accepted) = Len(wb.accepted) + 1
\* this step emitted a stroke-batch
BatchStep == Len(Batches(wb')) = Len(Batches(wb)) + 1
\* this step ended a gesture (endDraw on an active gesture)
EndDrawStep == wb.isDrawing /\ ~wb'.isDrawing

RECURSIVE SumGaps(_, _, _)
SumGaps(acc, i, j) == IF i > j THEN 0 ELSE acc[i].gap + SumGaps(acc, i + 1, j)

\* the entries of the last received batch in the order they were applied
AppliedEntries(s) == [k \in 1..Len(s.applied) |-> s.inbox[s.applied[k]]]

HasMeta(m) == Len(m) >= 10
AllMeta(batch) == \A i \in 1..Len(batch) : HasMeta(batch[i])

\* (strokeId, sequence) of a is not above that of b
KeyLeq(a, b) == a[9] < b[9] \/ (a[9] = b[9] /\ a[10] <= b[10])

\* each arrival position of the last batch was applied exactly once
AppliedOnce(s) ==
  /\ Len(s.applied) = Len(s.inbox)
  /\ \A i \in 1..Len(s.inbox) : Count(s.applied, i) = 1

\* the last Len(applied) strokes rendered are the segments of the applied
\* entries, in that order
RenderedAsApplied(s) ==
  LET n == Len(s.applied)
      base == Len(s.rendered) - n
  IN /\ base >= 0
     /\ \A k \in 1..n :
          LET m == AppliedEntries(s)[k]
          IN s.rendered[base + k].path = << <<m[4], m[5]>>, <<m[6], m[7]>> >>

\* this step is a call of syncStrokeBatchData
SyncBatchStep == wb'.batches = wb.batches + 1

(***************************************************************************)
(* C1.  With a transport attached and timers eventually firing, every      *)
(* segment handed to sendRealtimeStroke is eventually emitted inside a     *)
(* stroke-batch: from some point on the emitted batches hold exactly the   *)
(* handed segments, each as often as it was handed.                        *)
(***************************************************************************)
AllHandedEmitted ==
  /\ Len(HandedCoords(wb)) = Len(BatchedCoords(wb))
  /\ \A i \in 1..Len(HandedCoords(wb)) :
       Count(HandedCoords(wb), HandedCoords(wb)[i])
         = Count(BatchedCoords(wb), HandedCoords(wb)[i])

C1_NothingDropped == <>[]AllHandedEmitted

\* a segment the throttle had postponed has been emitted in a stroke-batch
C1_Witness ==
  /\ wb.held # {}
  /\ Len(wb.handed) >= 2
  /\ AllHandedEmitted
  /\ \E a \in wb.held : \E i \in 1..Len(BatchedCoords(wb)) :
       BatchedCoords(wb)[i] = RoundedSeg(a)

(***************************************************************************)
(* C2.  Any two accepted micro-strokes are accepted at least               *)
(* STROKE_THROTTLE apart, so a window of length W holds at most            *)
(* W / STROKE_THROTTLE + 1 accepted segments.                              *)
(***************************************************************************)
C2_ThrottleSpacing ==
  LET acc == wb.accepted
  IN \A i \in 1..Len(acc) : \A j \in (i + 1)..Len(acc) :
       LET W == SumGaps(acc, i + 1, j)
       IN /\ W >= STROKE_THROTTLE * (j - i)
          /\ j - i + 1 <= (W \div STROKE_THROTTLE) + 1

\* two segments were accepted exactly STROKE_THROTTLE apart, one after a postponement
C2_Witness ==
  /\ wb.held # {}
  /\ \E k \in 2..Len(wb.accepted) : wb.accepted[k].gap = STROKE_THROTTLE

(***************************************************************************)
(* C3.  With a transport attached, an accept that brings the buffer to     *)
(* BATCH_SIZE entries emits the whole buffer as one stroke-batch in the    *)
(* same step; between steps the buffer holds fewer than BATCH_SIZE entries *)
(* and no emitted stroke-batch holds more than BATCH_SIZE micro-strokes.   *)
(***************************************************************************)
BatchBound ==
  /\ Len(wb.strokeBuffer) < BATCH_SIZE
  /\ \A i \in 1..Len(Batches(wb)) : Len(Batches(wb)[i].payload) <= BATCH_SIZE

SizeFlush ==
  (AcceptStep /\ Len(wb.strokeBuffer) + 1 >= BATCH_SIZE)
    => /\ wb'.strokeBuffer = <<>>
       /\ BatchStep
       /\ Batches(wb')[Len(Batches(wb'))].payload
            = Append(wb.strokeBuffer, wb'.accepted[Len(wb'.accepted)].stroke)

C3_BatchSize == []BatchBound /\ [][SizeFlush]_vars

\* a stroke-batch of BATCH_SIZE micro-strokes was emitted by the accept that filled it
C3_Witness ==
  \E i \in 1..Len(Batches(wb)) :
    Batches(wb)[i].by = "size" /\ Len(Batches(wb)[i].payload) = BATCH_SIZE

(***************************************************************************)
(* C4.  Urgency path: when a segment is accepted and more than 50 time     *)
(* units have elapsed since the last flush, a stroke-batch is emitted in   *)
(* that same step.                                                         *)
(***************************************************************************)
C4_UrgencyFlush ==
  [][(AcceptStep /\ wb.sinceFlush = "long") => BatchStep]_vars

(***************************************************************************)
(* C5.  On gesture end with a transport attached a non-empty outgoing      *)
(* buffer is emitted as one stroke-batch at once; after endDraw the buffer *)
(* is empty and no deferred flush timer is pending.                        *)
(***************************************************************************)
C5_EndDrawFlush ==
  [][(EndDrawStep /\ wb.socket)
       => /\ wb'.strokeBuffer = <<>>
          /\ FlushTimers(wb') = {}
          /\ wb'.batchTimer = 0
          /\ IF wb.strokeBuffer # <<>>
               THEN /\ BatchStep
                    /\ Batches(wb')[Len(Batches(wb'))].payload = wb.strokeBuffer
               ELSE wb'.emitted = wb.emitted]_vars

\* a gesture ended with micro-strokes in the buffer, accepted less than
\* STROKE_THROTTLE before, and they were emitted by endDraw
C5_Witness ==
  /\ ~wb.isDrawing
  /\ wb.lastAccept > -STROKE_THROTTLE
  /\ Len(Batches(wb)) > 0
  /\ Batches(wb)[Len(Batches(wb))].by = "endDraw"
  /\ wb.strokeBuffer = <<>>

(***************************************************************************)
(* C6.  At most one deferred flush timer is pending at any time, it is the *)
(* one batchTimer names, and every flush leaves no flush timer pending.    *)
(***************************************************************************)
OneFlushTimer ==
  /\ Cardinality(FlushTimers(wb)) <= 1
  /\ \A i \in FlushTimers(wb) : wb.timers[i].id = wb.batchTimer

C6_SingleFlushTimer ==
  []OneFlushTimer /\ [][BatchStep => FlushTimers(wb') = {}]_vars

\* the flush timer was re-armed: two micro-strokes wait behind one pending timer
C6_Witness ==
  /\ Len(wb.strokeBuffer) >= 2
  /\ Cardinality(FlushTimers(wb)) = 1

(***************************************************************************)
(* C7.  The whiteboard without a transport never emits an event, its       *)
(* outgoing buffer stays empty and no flush timer is armed for it, while   *)
(* its raster, the strokes it rendered and its stroke log equal, after     *)
(* every step, those of the whiteboard that received the same operations   *)
(* with a transport attached.                                              *)
(***************************************************************************)
C7_NoTransportNoOp ==
  /\ nt.emitted = <<>>
  /\ nt.strokeBuffer = <<>>
  /\ nt.batchTimer = 0
  /\ FlushTimers(nt) = {}
  /\ nt.data = wb.data
  /\ nt.rendered = wb.rendered
  /\ nt.strokes = wb.strokes
  /\ nt.isDrawing = wb.isDrawing

\* a fast brush gesture (with interpolation timers) and a fill were logged and
\* left paint on both rasters, no timer of either whiteboard is pending any
\* more, and the one with the transport emitted a stroke-batch and the fill
C7_Witness ==
  /\ \E i \in 1..Len(nt.strokes) : nt.strokes[i][1] = 2
  /\ \E i \in 1..Len(nt.strokes) :
       nt.strokes[i][1] # 2 /\ Len(nt.strokes[i]) >= 7 /\ nt.strokes[i][6] = 22
  /\ nt.data # BlankData
  /\ nt.timers = <<>> /\ wb.timers = <<>>
  /\ Len(Batches(wb)) > 0
  /\ \E i \in 1..Len(wb.emitted) : wb.emitted[i].event = "single-stroke"

(***************************************************************************)
(* C8.  A received batch whose entries all carry strokeId and sequence is  *)
(* applied in non-decreasing (strokeId, sequence) order, whatever the      *)
(* arrival order and the engine, each entry exactly once, and the segments *)
(* are rendered in that order.                                             *)
(***************************************************************************)
C8_SortedApply ==
  [][(SyncBatchStep /\ AllMeta(wb'.inbox))
       => /\ AppliedOnce(wb')
          /\ \A k \in 1..(Len(wb'.applied) - 1) :
               KeyLeq(AppliedEntries(wb')[k], AppliedEntries(wb')[k + 1])
          /\ RenderedAsApplied(wb')]_vars

\* sequence 2, 0, 1 of strokeId 5 arrived and was applied as 0, 1, 2
C8_Witness ==
  /\ wb.inbox = <<SegC, SegA, SegB>>
  /\ wb.applied = <<2, 3, 1>>
  /\ Len(wb.rendered) >= 3

(***************************************************************************)
(* C9.  In every received batch the entries without strokeId/sequence are  *)
(* applied in their relative arrival order, also when the batch mixes them *)
(* with entries that carry the metadata.                                   *)
(***************************************************************************)
C9_PlainKeepArrivalOrder ==
  wb.batches > 0
    => /\ AppliedOnce(wb)
       /\ \A i \in 1..Len(wb.applied) : \A j \in (i + 1)..Len(wb.applied) :
            (~HasMeta(wb.inbox[wb.applied[i]]) /\ ~HasMeta(wb.inbox[wb.applied[j]]))
              => wb.applied[i] < wb.applied[j]

\* a mixed batch was reordered by the sort and its two entries without
\* metadata were still applied in arrival order
C9_Witness ==
  /\ Len(wb.inbox) = 4
  /\ wb.inbox[2] = Plain7 /\ wb.inbox[4] = Plain8
  /\ HasMeta(wb.inbox[1]) /\ HasMeta(wb.inbox[3])
  /\ wb.applied # <<1, 2, 3, 4>>
  /\ AppliedOnce(wb)

(***************************************************************************)
(* C10.  In batch apply an entry of type 2 (4 fields, or the extended 7    *)
(* fields) runs the flood fill at its (x, y) with its fill colour and is   *)
(* not drawn as a line; an entry of type 0 / 1 draws its segment in        *)
(* source-over / destination-out mode.  The raster after the batch is the  *)
(* raster obtained by doing just that to each entry in the order applied.  *)
(***************************************************************************)
\* what the entry m is to do to the raster data
EntryEffect(s, data, m) ==
  IF m[1] = 2
    THEN floodFill(data, m[3], m[4],
                   IF Len(m) >= 6 THEN m[6] ELSE indexToColor(s.palette, m[2]))
    ELSE LET color == IF Len(m) >= 8 THEN m[8] ELSE indexToColor(s.palette, m[2])
             rgb == hexToRgb(color)
             pixel == IF m[1] = 1 THEN TRANSPARENT ELSE <<rgb.r, rgb.g, rgb.b, 255>>
         IN PaintPoints(data, << <<m[4], m[5]>>, <<m[6], m[7]>> >>, pixel)

RECURSIVE EffectFrom(_, _, _, _)
EffectFrom(s, data, entries, k) ==
  IF k > Len(entries) THEN data
  ELSE EffectFrom(s, EntryEffect(s, data, entries[k]), entries, k + 1)

C10_BatchFillAndLines ==
  [][SyncBatchStep
       => wb'.data = EffectFrom(wb, wb.data, AppliedEntries(wb'), 1)]_vars

\* the same for the batches that hold no fill: every entry a segment
SegmentsOnly(batch) == \A i \in 1..Len(batch) : batch[i][1] # 2

C10_SegmentsDrawn ==
  [][(SyncBatchStep /\ SegmentsOnly(wb'.inbox))
       => /\ wb'.data = EffectFrom(wb, wb.data, AppliedEntries(wb'), 1)
          /\ RenderedAsApplied(wb')]_vars

(***************************************************************************)
(* Observations of the recorded method calls.                              *)
(***************************************************************************)
\* this step is a call of the method called name
OpStep(name) == wb'.ops = wb.ops + 1 /\ wb'.op[1] = name

\* the step left the outgoing buffer, the timers, the throttle clock and the
\* emitted events alone
SenderUntouched ==
  /\ wb'.strokeBuffer = wb.strokeBuffer
  /\ wb'.timers = wb.timers
  /\ wb'.batchTimer = wb.batchTimer
  /\ wb'.lastStrokeSent = wb.lastStrokeSent
  /\ wb'.emitted = wb.emitted

\* the single stroke is one the sender builds: a fill, or a segment of 7 to
\* 10 fields
SingleWellFormed(stroke, type) ==
  IF type = "fill" THEN stroke \in {Fill4, Fill7} ELSE Len(stroke) \in 7..10

(***************************************************************************)
(* C11.  syncSingleStorkes, for a fill and for a non-fill stroke alike,    *)
(* changes the raster in that same step to what the stroke is to do,       *)
(* leaves the outgoing buffer, the timers and the throttle clock alone,    *)
(* and makes the stroke log longer by exactly one entry.                   *)
(***************************************************************************)
C11_SingleApplyLogged ==
  [][(OpStep("syncSingleStorkes") /\ SingleWellFormed(wb'.op[2], wb'.op[3]))
       => /\ SenderUntouched
          /\ wb'.data = EntryEffect(wb, wb.data, wb'.op[2])
          /\ Len(wb'.strokes) = Len(wb.strokes) + 1]_vars

\* the same without the stroke log for a non-fill stroke: a fill is logged
\* as <<2, fillColor, x, y, originalColor>>, a segment leaves the log alone
C11_SingleApplyAtOnce ==
  [][(OpStep("syncSingleStorkes") /\ SingleWellFormed(wb'.op[2], wb'.op[3]))
       => /\ SenderUntouched
          /\ wb'.data = EntryEffect(wb, wb.data, wb'.op[2])
          /\ IF wb'.op[3] = "fill"
               THEN /\ Len(wb'.strokes) = Len(wb.strokes) + 1
                    /\ wb'.strokes[Len(wb'.strokes)][1] = 2
                    /\ SubSeq(wb'.strokes, 1, Len(wb.strokes)) = wb.strokes
               ELSE wb'.strokes = wb.strokes]_vars

(***************************************************************************)
(* C12.  syncDrawing empties the raster and the stroke log and then        *)
(* applies the list like a batch: every segment that syncStrokeBatchData   *)
(* renders for the same list on a cleared whiteboard (on any engine) is    *)
(* rendered by syncDrawing too, with the same mode, colour, width and      *)
(* end points, the entries of 8 to 10 fields included.                     *)
(***************************************************************************)
\* the strokes rendered by a batch apply of the list on the cleared whiteboard
BatchRendered(s, list, engine) ==
  syncStrokeBatchData(syncClearCanvas(s), list, engine).rendered

\* every stroke rendered in a occurs in b
RenderedWithin(a, b) ==
  \A i \in 1..Len(a) : \E j \in 1..Len(b) : b[j] = a[i]

C12_ReplaceAsBatch ==
  [][OpStep("syncDrawing")
       => /\ wb'.strokes = <<>>
          /\ \A engine \in Engines :
               RenderedWithin(BatchRendered(wb, wb'.op[2], engine), wb'.rendered)]_vars

\* the same for the lists getMicroStrokesStyleData builds (segments of exactly
\* 7 fields): the stroke log is emptied, nothing drawn before survives, and
\* the segments of the list are rendered as a batch apply renders them
SevenFieldSegments(list) == \A i \in 1..Len(list) : Len(list[i]) \notin 8..10

C12_ReplacePlainAsBatch ==
  [][(OpStep("syncDrawing") /\ SevenFieldSegments(wb'.op[2]))
       => /\ wb'.strokes = <<>>
          /\ wb'.data = applyStrokesData(syncClearCanvas(wb), wb'.op[2]).data
          /\ \A engine \in Engines :
               /\ RenderedWithin(BatchRendered(wb, wb'.op[2], engine), wb'.rendered)
               /\ RenderedWithin(wb'.rendered, BatchRendered(wb, wb'.op[2], engine))]_vars

(***************************************************************************)
(* C13.  clearCanvas and syncClearCanvas leave the raster blank and the    *)
(* stroke log empty and do not change the palette, the stroke id or the    *)
(* sequence counter; clearCanvas emits exactly one canvas-clear when a     *)
(* transport is attached and nothing otherwise, syncClearCanvas emits      *)
(* nothing.                                                                *)
(***************************************************************************)
\* the step emptied the drawing and kept the palette and the counters
ClearedOnly ==
  /\ wb'.data = BlankData
  /\ wb'.rendered = <<>>
  /\ wb'.strokes = <<>>
  /\ wb'.palette = wb.palette
  /\ wb'.currentStrokeId = wb.currentStrokeId
  /\ wb'.currentStroke = wb.currentStroke
  /\ wb'.microStrokeSequence = wb.microStrokeSequence

C13_ClearFrame ==
  /\ [][OpStep("clearCanvas")
          => /\ ClearedOnly
             /\ IF wb.socket
                  THEN /\ Len(wb'.emitted) = Len(wb.emitted) + 1
                       /\ SubSeq(wb'.emitted, 1, Len(wb.emitted)) = wb.emitted
                       /\ wb'.emitted[Len(wb'.emitted)].event = "canvas-clear"
                  ELSE wb'.emitted = wb.emitted]_vars
  /\ [][OpStep("syncClearCanvas") => (ClearedOnly /\ wb'.emitted = wb.emitted)]_vars

\* clearCanvas ran in the middle of a gesture drawn in a colour that was new
\* to the palette: a segment had been rendered and sent, the palette had
\* grown and the sequence counter had advanced, and a canvas-clear is the
\* last event emitted
C13_Witness ==
  /\ wb.op = <<"clearCanvas">>
  /\ wb.data = BlankData /\ wb.strokes = <<>>
  /\ wb.accepted # <<>>
  /\ Len(wb.palette) = Len(InitialPalette) + 1
  /\ wb.microStrokeSequence > 0
  /\ wb.isDrawing
  /\ wb.emitted # <<>>
  /\ wb.emitted[Len(wb.emitted)].event = "canvas-clear"

(***************************************************************************)
(* C14.  An entry with a wrong field count is skipped when it is applied:  *)
(* in a batch and in a single apply an entry of fewer than 7 fields (for a *)
(* single fill: of neither 4 nor 7 fields), in a full replace an entry     *)
(* that has neither the 4 fields of a fill nor the 7 to 10 of a segment.   *)
(* It changes neither the raster nor the stroke log, and the other entries *)
(* of the list are applied as if it were not there.                        *)
(***************************************************************************)
SingleMalformed(stroke, type) ==
  IF type = "fill" THEN Len(stroke) \notin {4, 7} ELSE Len(stroke) < 7

ReplaceWellFormed(m) == Len(m) = 4 \/ Len(m) \in 7..10

\* the raster, the rendered strokes, the stroke log and the context agree
SameDrawing(a, b) ==
  /\ a.data = b.data
  /\ a.rendered = b.rendered
  /\ a.strokes = b.strokes
  /\ a.ctx = b.ctx

\* the batch of this step did what its entries of 7 or more fields do, in the
\* order in which they were applied, and nothing to the stroke log
BatchSkipsMalformed ==
  LET list == wb'.inbox
      Keep(k) == Len(list[k]) >= 7
      kept == SelectSeq(wb'.applied, Keep)
      pre == [wb EXCEPT !.inbox = list, !.applied = <<>>]
  IN /\ AppliedOnce(wb')
     /\ SameDrawing(wb', ApplyFrom(pre, list, kept, 1))
     /\ wb'.strokes = wb.strokes

\* the full replace of this step did what the replace of the well-formed
\* entries of its list does
ReplaceSkipsMalformed ==
  SameDrawing(wb', syncDrawing(wb, SelectSeq(wb'.op[2], ReplaceWellFormed)))

C14_MalformedSkipped ==
  /\ [][OpStep("syncStrokeBatchData") => BatchSkipsMalformed]_vars
  /\ [][OpStep("syncDrawing") => ReplaceSkipsMalformed]_vars
  /\ [][(OpStep("syncSingleStorkes") /\ SingleMalformed(wb'.op[2], wb'.op[3]))
          => SameDrawing(wb', wb)]_vars

\* the same without the single fill: what applyMicroStroke and
\* applyStrokesData are given is skipped when its field count is wrong
C14_ApplySkipsMalformed ==
  /\ [][OpStep("syncStrokeBatchData") => BatchSkipsMalformed]_vars
  /\ [][OpStep("syncDrawing") => ReplaceSkipsMalformed]_vars
  /\ [][(OpStep("syncSingleStorkes") /\ wb'.op[3] # "fill" /\ Len(wb'.op[2]) < 7)
          => SameDrawing(wb', wb)]_vars

(***************************************************************************)
(* Observations of the palette calls.                                      *)
(***************************************************************************)
\* this step is a getColorIndex call on the palette
GetStep == Len(wb'.calls) = Len(wb.calls) + 1

LastCall(s) == s.calls[Len(s.calls)]

\* the call was turned away: the palette was full and did not hold the colour
TurnedAway(call) == call.len >= PALETTE_CAP /\ ~call.had

(***************************************************************************)
(* C15.  getColorIndex of a colour the palette holds returns the index of  *)
(* that colour and leaves the palette as it is; the index of a colour the  *)
(* palette holds is the same after every later call, and every colour that *)
(* a call registered or found still maps to the index that call returned.  *)
(***************************************************************************)
C15_Stable ==
  /\ [][(GetStep /\ LastCall(wb').had)
          => /\ LastCall(wb').idx = IndexOf(wb.palette, LastCall(wb').color)
             /\ wb'.palette = wb.palette]_vars
  /\ [][\A color \in PaletteColors :
          IndexOf(wb.palette, color) # -1
            => IndexOf(wb'.palette, color) = IndexOf(wb.palette, color)]_vars
  /\ [](\A k \in 1..Len(wb.calls) :
          ~TurnedAway(wb.calls[k])
            => getColorIndex(wb.palette, wb.calls[k].color)
                 = [idx |-> wb.calls[k].idx, palette |-> wb.palette])

\* a new colour was registered, another new colour after it, and the first
\* one was then found at the index it was registered with
C15_Witness ==
  /\ Len(wb.calls) = 3
  /\ ~wb.calls[1].had /\ ~wb.calls[2].had /\ wb.calls[3].had
  /\ wb.calls[1].color # wb.calls[2].color
  /\ wb.calls[3].color = wb.calls[1].color
  /\ wb.calls[3].idx = wb.calls[1].idx
  /\ wb.calls[1].idx = Len(InitialPalette)
  /\ Len(wb.palette) = Len(InitialPalette) + 2

(***************************************************************************)
(* C16.  The palette never holds more than 256 colours: getColorIndex of a *)
(* colour that a palette of 256 colours does not hold returns 0 and leaves *)
(* the palette as it is.                                                   *)
(***************************************************************************)
C16_Overflow ==
  /\ [](Len(wb.palette) <= PALETTE_CAP)
  /\ [][(GetStep /\ TurnedAway(LastCall(wb')))
          => /\ LastCall(wb').idx = 0
             /\ wb'.palette = wb.palette]_vars

\* a call put the 256th colour into the palette and the next new colour was
\* turned away with index 0
C16_Witness ==
  /\ Len(wb.calls) >= 2
  /\ \E k \in 1..(Len(wb.calls) - 1) :
       /\ ~wb.calls[k].had /\ wb.calls[k].len = PALETTE_CAP - 1
       /\ wb.calls[k].idx = PALETTE_CAP - 1
       /\ TurnedAway(wb.calls[k + 1]) /\ wb.calls[k + 1].idx = 0
  /\ Len(wb.palette) = PALETTE_CAP
  /\ wb.palette[1] = BLACK

(***************************************************************************)
(* C17.  indexToColor of the index a getColorIndex call returned is the    *)
(* colour of that call, unless the call was turned away by a full palette; *)
(* indexToColor of an index outside the palette is "#000000".              *)
(***************************************************************************)
C17_RoundTrip ==
  /\ \A k \in 1..Len(wb.calls) :
       ~TurnedAway(wb.calls[k])
         => indexToColor(wb.palette, wb.calls[k].idx) = wb.calls[k].color
  /\ (Len(wb.op) > 0 /\ wb.op[2] \notin 0..(wb.op[4] - 1)) => wb.op[3] = BLACK

\* a colour new to the palette was registered at the end of it, and the
\* index just behind the palette was looked up
C17_Witness ==
  /\ Len(wb.calls) >= 1
  /\ ~wb.calls[1].had /\ wb.calls[1].idx = Len(InitialPalette)
  /\ indexToColor(wb.palette, wb.calls[1].idx) = TEAL
  /\ Len(wb.op) > 0 /\ wb.op[2] = wb.op[4] /\ wb.op[3] = BLACK

(***************************************************************************)
(* C18.  The palette never holds more than 256 colours or one colour       *)
(* twice, and no step of a session (gestures, clearCanvas, exportData,     *)
(* sendCompleteDrawing, the sync* methods) removes or replaces an entry:   *)
(* the palette before a step is a prefix of the palette after it.  The     *)
(* palette of the first state holds no colour twice and every step adds    *)
(* only colours that are new to it, so no state holds a colour twice.      *)
(***************************************************************************)
NoDuplicates(palette) ==
  \A i \in 1..Len(palette) : \A j \in (i + 1)..Len(palette) : palette[i] # palette[j]

\* the palette after the step starts with the palette before it, and what
\* it adds is new and added once
AppendsNew(before, after) ==
  /\ Len(after) >= Len(before)
  /\ SubSeq(after, 1, Len(before)) = before
  /\ \A i \in (Len(before) + 1)..Len(after) : \A j \in 1..(i - 1) : after[j] # after[i]

C18_AppendOnly ==
  /\ NoDuplicates(wb.palette)
  /\ [](Len(wb.palette) <= PALETTE_CAP)
  /\ [][AppendsNew(wb.palette, wb'.palette)]_vars

\* without a transport a gesture in a new colour was logged, and exportData
\* registered the colour behind the initial palette
C18_Witness ==
  /\ ~wb.socket
  /\ wb.op = <<"exportData">>
  /\ Len(wb.exported) > 2
  /\ Len(wb.strokes) = 1 /\ wb.strokes[1][2] = TEAL
  /\ Len(wb.palette) = Len(InitialPalette) + 1
  /\ wb.palette[Len(wb.palette)] = TEAL
  /\ SubSeq(wb.palette, 1, Len(InitialPalette)) = InitialPalette

(***************************************************************************)
(* C19.  floodFill changes exactly the pixels of the 4-connected region    *)
(* that contains the seed and whose RGBA equals the RGBA the seed had, and *)
(* sets each of them to the fill colour with alpha 255; every other pixel  *)
(* keeps its value.                                                        *)
(***************************************************************************)
Coords == (0..(CanvasW - 1)) \X (0..(CanvasH - 1))

Adjacent(p, q) ==
  \/ p[1] = q[1] /\ (p[2] = q[2] + 1 \/ q[2] = p[2] + 1)
  \/ p[2] = q[2] /\ (p[1] = q[1] + 1 \/ q[1] = p[1] + 1)

At(data, p) == data[p[2] * CanvasW + p[1] + 1]

\* the least set that holds the seed and every pixel of the seed's value
\* next to one of its pixels
RECURSIVE Grow(_, _, _)
Grow(data, value, region) ==
  LET more == {q \in Coords \ region :
                 At(data, q) = value /\ \E p \in region : Adjacent(p, q)}
  IN IF more = {} THEN region ELSE Grow(data, value, region \cup more)

Region(data, x, y) == Grow(data, At(data, <<x, y>>), {<<x, y>>})

FillPixel(color) ==
  LET rgb == hexToRgb(color) IN <<rgb.r, rgb.g, rgb.b, 255>>

LastFill == wb.calls[Len(wb.calls)]

C19_Containment ==
  Len(wb.calls) > 0 =>
    LET c == LastFill
        region == Region(c.before, c.x, c.y)
    IN \A p \in Coords :
         At(wb.data, p) = IF p \in region THEN FillPixel(c.color) ELSE At(c.before, p)

\* a fill repainted a region of several pixels and left alone a pixel of the
\* seed's value that touches the region only at a corner
C19_Witness ==
  /\ Len(wb.calls) > 0
  /\ LET c == LastFill
         region == Region(c.before, c.x, c.y)
     IN /\ Cardinality(region) >= 2
        /\ wb.data # c.before
        /\ \E q \in Coords \ region :
             /\ At(c.before, q) = At(c.before, <<c.x, c.y>>)
             /\ At(wb.data, q) = At(c.before, q)
             /\ \E p \in region : p[1] # q[1] /\ p[2] # q[2]
                                    /\ p[1] - q[1] \in {-1, 1} /\ p[2] - q[2] \in {-1, 1}

(***************************************************************************)
(* C20.  A floodFill whose seed pixel already has the fill colour with     *)
(* alpha 255 leaves the pixel buffer as it is, and a floodFill repeated    *)
(* with the same seed and colour changes nothing the first did not.        *)
(***************************************************************************)
FillStep == Len(wb'.calls) = Len(wb.calls) + 1

NewFill == wb'.calls[Len(wb'.calls)]

Repeated ==
  /\ Len(wb.calls) > 0
  /\ LastFill.x = NewFill.x /\ LastFill.y = NewFill.y /\ LastFill.color = NewFill.color

C20_Idempotent ==
  /\ [][FillStep /\ At(wb.data, <<NewFill.x, NewFill.y>>) = FillPixel(NewFill.color)
          => wb'.data = wb.data]_vars
  /\ [][FillStep /\ Repeated => wb'.data = wb.data]_vars

\* a fill that repainted pixels was repeated with the same seed and colour
C20_Witness ==
  /\ Len(wb.calls) = 2
  /\ wb.calls[1].x = wb.calls[2].x /\ wb.calls[1].y = wb.calls[2].y
  /\ wb.calls[1].color = wb.calls[2].color
  /\ wb.calls[1].before # wb.calls[2].before
  /\ At(wb.calls[1].before, <<wb.calls[1].x, wb.calls[1].y>>) = HALF_RED
  /\ wb.data = wb.calls[2].before

(***************************************************************************)
(* C21.  floodFill terminates for every picture, every seed inside or      *)
(* outside the canvas and every fill colour: a call that entered the loop  *)
(* returns, no pixel is written more than once, and a call whose seed is   *)
(* outside the canvas leaves every pixel as it was.  The result of the     *)
(* loop run step by step is the result of floodFill.                       *)
(***************************************************************************)
SeedOutside(f) == f.x < 0 \/ f.x >= CanvasW \/ f.y < 0 \/ f.y >= CanvasH

FloodDone == wb.flood.pc = "done"

C21_Terminates ==
  /\ (wb.flood.pc = "loop") ~> FloodDone
  /\ [](wb.flood.pc # "idle" => \A i \in 1..Len(wb.data) : wb.flood.painted[i] <= 1)
  /\ [](FloodDone /\ SeedOutside(wb.flood) => wb.data = wb.flood.before)
  /\ [](FloodDone =>
          wb.data = floodFill(wb.flood.before, wb.flood.x, wb.flood.y, wb.flood.color))

\* a call from a seed outside the canvas that read the value of a pixel of
\* the next row, entered the loop and returned
C21_Witness ==
  /\ FloodDone
  /\ wb.flood.x = CanvasW /\ wb.flood.y = 0
  /\ wb.flood.start = HALF_RED
  /\ wb.flood.visited = {}
  /\ wb.data = wb.flood.before

\* a call that painted every pixel of the canvas and returned
C21_FilledAll ==
  /\ FloodDone
  /\ \A i \in 1..Len(wb.data) : wb.flood.painted[i] = 1

(***************************************************************************)
(* C22.  Codec round trip.  For a list of at most 255 strokes whose        *)
(* consecutive points differ by a delta within -128..127 on each axis,     *)
(* decoding the bytes of encodeDrawingBinary with the palette the encoder  *)
(* left gives back every stroke's type, colour, width and coordinates.     *)
(***************************************************************************)
Decoded == wb.ops = 2

PointsOf(stroke) == SubSeq(stroke, 4, Len(stroke))

\* the deltas between consecutive points of a brush / eraser stroke
Deltas(stroke) ==
  LET points == PointsOf(stroke)
  IN [i \in 1..(Len(points) - 2) |-> points[i + 2] - points[i]]

DeltasInRange(strokes) ==
  \A k \in 1..Len(strokes) :
    strokes[k][1] # 2 =>
      \A i \in 1..Len(Deltas(strokes[k])) : Deltas(strokes[k])[i] \in (-128)..127

Codable(strokes) == Len(strokes) < COUNT_RANGE /\ DeltasInRange(strokes)

\* as stated: the decoded list is the encoded list
C22_RoundTripExact ==
  Decoded /\ Codable(wb.strokes) => wb.decoded = wb.strokes

\* the colour a stroke's colour is decoded as: itself, or the first colour of
\* the palette when the full palette turned it away
ColourKept(color) ==
  IF \E i \in 1..Len(wb.palette) : wb.palette[i] = color THEN color ELSE wb.palette[1]

\* a stroke as the format can hold it: the width in one byte, the colours
\* as the palette holds them
Storable(stroke) ==
  IF stroke[1] = 2
    THEN <<2, ColourKept(stroke[2]), stroke[3], stroke[4], ColourKept(stroke[5])>>
    ELSE <<stroke[1], ColourKept(stroke[2]), Min(255, Max(0, stroke[3]))>>
           \o PointsOf(stroke)

\* as amended: the decoded list is the list of the strokes as the format can
\* hold them
C22_RoundTrip ==
  Decoded /\ Codable(wb.strokes) =>
    /\ Len(wb.decoded) = Len(wb.strokes)
    /\ \A k \in 1..Len(wb.strokes) : wb.decoded[k] = Storable(wb.strokes[k])

\* encoding put a new colour into the last free slot of the palette; the
\* list, with deltas of -128 and 127, was decoded as it was encoded
C22_Witness ==
  /\ Decoded
  /\ wb.strokes = <<StrokeNew, StrokeEdge>>
  /\ wb.decoded = wb.strokes
  /\ Len(wb.op[2]) = PALETTE_CAP - 1
  /\ Len(wb.palette) = PALETTE_CAP
  /\ wb.palette[PALETTE_CAP] = TEAL

(***************************************************************************)
(* C23.  Delta wrap.  Every delta byte of the exported bytes is the        *)
(* difference of the rounded coordinates modulo 256, and a stroke is       *)
(* encoded with one byte pair per point after the first whatever the       *)
(* differences are.  Read as a signed 8-bit value, the byte of a           *)
(* difference outside -128..127 is off by a non-zero multiple of 256, and  *)
(* the decoded value of that point and of every following point of the     *)
(* stroke carries that error.                                              *)
(***************************************************************************)
Exported == wb.ops >= 1

\* the number of bytes a stroke is encoded in
ByteLen(stroke) ==
  IF stroke[1] = 2 THEN 7
  ELSE IF Len(PointsOf(stroke)) = 0 THEN 5
  ELSE 5 + 4 + (Len(PointsOf(stroke)) - 2)

\* the number of bytes the strokes lo..hi are encoded in
RECURSIVE BytesOf(_, _, _)
BytesOf(strokes, lo, hi) ==
  IF lo > hi THEN 0
  ELSE IF lo = hi THEN ByteLen(strokes[lo])
  ELSE LET mid == (lo + hi) \div 2
       IN BytesOf(strokes, lo, mid) + BytesOf(strokes, mid + 1, hi)

\* the position of the first byte of the k-th stroke
StrokeStart(strokes, k) == 3 + BytesOf(strokes, 1, k - 1)

\* what reading the byte of a difference d as a signed value adds to it
WrapError(d) == Signed8(LowByte(d + 256)) - d

\* the errors of the deltas up to the i-th coordinate, on its axis
RECURSIVE CarriedError(_, _)
CarriedError(points, i) ==
  IF i <= 2 THEN 0
  ELSE CarriedError(points, i - 2) + WrapError(points[i] - points[i - 2])

Recovered(d, stroke) ==
  IF DeltasInRange(<<stroke>>) THEN d = Storable(stroke)
  ELSE Len(d) = Len(stroke) /\ SubSeq(d, 1, 5) = SubSeq(Storable(stroke), 1, 5)

C24_CountByte ==
  LET n == Len(wb.strokes)
  IN /\ Exported =>
          /\ wb.exported[2] = n % COUNT_RANGE
          /\ n >= COUNT_RANGE => wb.exported[2] # n
          /\ Len(wb.exported) = 2 + BytesOf(wb.strokes, 1, n)
          /\ LET all == DecodeFrom(wb.exported, 3, n, wb.palette)
             IN /\ Len(all) = n
                /\ \A k \in 1..n : Recovered(all[k], wb.strokes[k])
     /\ Decoded =>
          /\ Len(wb.decoded) = n % COUNT_RANGE
          /\ \A k \in 1..Len(wb.decoded) : Recovered(wb.decoded[k], wb.strokes[k])

\* a list of 257 strokes was exported with a count byte of 1, and the
\* decoder recovered one stroke
C24_Witness ==
  /\ Decoded
  /\ Len(wb.strokes) = COUNT_RANGE + 1
  /\ wb.exported[2] = 1
  /\ Len(wb.exported) = 2 + 7 * (COUNT_RANGE + 1)
  /\ wb.decoded = <<wb.strokes[1]>>

\* a list of 256 strokes was exported with a count byte of 0
C24_Zero ==
  /\ Exported
  /\ Len(wb.strokes) = COUNT_RANGE
  /\ wb.exported[2] = 0

(***************************************************************************)
(* C25.  Every gesture has a strokeId of its own: two micro-strokes carry  *)
(* the same strokeId when the same gesture generated their segments, and   *)
(* different strokeIds when different gestures of the whiteboard did.      *)
(***************************************************************************)
GestureOf(m) == m.tag[1]
RankOf(m) == m.tag[2]
StrokeIdOf(m) == m.stroke[9]
SequenceOf(m) == m.stroke[10]

C25_StrokeIdPerGesture ==
  \A i, j \in 1..Len(wb.accepted) :
    (GestureOf(wb.accepted[i]) = GestureOf(wb.accepted[j]))
      <=> (StrokeIdOf(wb.accepted[i]) = StrokeIdOf(wb.accepted[j]))

(***************************************************************************)
(* C26.  The sequence values of the micro-strokes of one gesture, in the   *)
(* order in which they were accepted, are 0, 1, 2, ...: they start at 0    *)
(* and increase without a gap, also when segments of the gesture before    *)
(* were still held by the throttle or by an interpolation timer when the   *)
(* gesture started.                                                        *)
(***************************************************************************)
\* the micro-strokes of gesture g among the first n accepted ones
RECURSIVE OfGesture(_, _, _)
OfGesture(accepted, g, n) ==
  IF n = 0 THEN <<>>
  ELSE IF GestureOf(accepted[n]) = g
    THEN Append(OfGesture(accepted, g, n - 1), accepted[n])
    ELSE OfGesture(accepted, g, n - 1)

Counted(ms) == \A k \in 1..Len(ms) : SequenceOf(ms[k]) = k - 1

C26_SequencePerGesture ==
  \A g \in 1..wb.gestures : Counted(OfGesture(wb.accepted, g, Len(wb.accepted)))

\* up to the second startDraw the sequence values are 0, 1, 2, ..., also
\* those of segments accepted after the gesture's endDraw
C26_FirstGestureCounted ==
  wb.gestures <= 1 => Counted(wb.accepted)

LogEntryOk(e) ==
  IF e[1] = 2 THEN Len(e) = 5
  ELSE e[1] \in {0, 1} /\ Len(e) >= 5 /\ (Len(e) - 3) % 2 = 0

LogOk(s) == \A k \in 1..Len(s.strokes) : LogEntryOk(s.strokes[k])

\* the step from s to t leaves the log alone, empties it, or appends one
\* entry in one of the two ways
LogStep(s, t) ==
  \/ t.strokes = s.strokes
  \/ t.strokes = <<>>
  \/ /\ Len(t.strokes) = Len(s.strokes) + 1
     /\ SubSeq(t.strokes, 1, Len(s.strokes)) = s.strokes
     /\ LET e == t.strokes[Len(t.strokes)]
        IN \/ /\ e[1] = 2
              /\ s.tool = "fill" /\ t.gestures = s.gestures + 1
              /\ e[2] = s.colorPickerValue
              /\ t.data = floodFill(s.data, e[3], e[4], e[2])
           \/ /\ e[1] \in {0, 1}
              /\ s.isDrawing /\ ~t.isDrawing
              /\ e = s.currentStroke

C27_StrokeLog ==
  /\ [](LogOk(wb) /\ LogOk(nt))
  /\ [][LogStep(wb, wb') /\ LogStep(nt, nt')]_vars

\* the first gesture's stroke of two points is in the log while the second
\* gesture's stroke, also of two points, is under construction
C27_Witness ==
  /\ Len(wb.strokes) = 1
  /\ Len(wb.strokes[1]) = 7
  /\ wb.isDrawing
  /\ wb.gestures = 2
  /\ Len(wb.currentStroke) = 7

\* a fill is in the log as soon as startDraw has performed it
C27_FillLogged ==
  /\ Len(wb.strokes) = 1
  /\ wb.strokes[1][1] = 2
  /\ wb.data # BlankData
  /\ ~wb.isDrawing

(***************************************************************************)
(* C28.  The palette of an export envelope decodes its binary data: every  *)
(* colour index in the exported bytes is an index of the palette as        *)
(* exportData leaves it, and the palette has the stroke's colour there,    *)
(* unless the palette was full and did not hold the colour (the index is   *)
(* then 0).  This is so also for colours that the encoding itself added.   *)
(***************************************************************************)
\* idx is a valid index for the colour: the palette has the colour at idx, or
\* is full without the colour and idx is 0
IndexFor(palette, idx, color) ==
  /\ idx \in 0..(Len(palette) - 1)
  /\ IF \E i \in 1..Len(palette) : palette[i] = color
       THEN indexToColor(palette, idx) = color
       ELSE Len(palette) = PALETTE_CAP /\ idx = 0

C28_EnvelopePalette ==
  Exported =>
    \A k \in 1..Len(wb.strokes) :
      LET stroke == wb.strokes[k]
          at == StrokeStart(wb.strokes, k)
      IN /\ IndexFor(wb.palette, wb.exported[at + 1], stroke[2])
         /\ stroke[1] = 2 => IndexFor(wb.palette, wb.exported[at + 6], stroke[5])

\* the encoding added the colours of two strokes to the palette, and the
\* exported indices are their places in the palette of the envelope
C28_Witness ==
  /\ Exported
  /\ wb.strokes = <<StrokeNew, StrokeFill>>
  /\ Len(wb.op[2]) = Len(InitialPalette)
  /\ Len(wb.palette) = Len(InitialPalette) + 2
  /\ wb.exported[4] = Len(InitialPalette)
  /\ wb.palette[wb.exported[4] + 1] = TEAL
  /\ wb.palette[wb.exported[StrokeStart(wb.strokes, 2) + 1] + 1] = StrokeFill[2]

(***************************************************************************)
(* Two peers.  wb is the whiteboard of peer A, which draws one gesture and *)
(* sends its complete drawing; nt is the whiteboard of peer B, which       *)
(* receives the "drawing-sync" event with the documented handler.  Each    *)
(* peer has the palette of its own CommonUtilities: B may have registered  *)
(* a custom colour of its own before the sync.                             *)
(***************************************************************************)
PeerColor == ExtraColor(2)

PeerPalettes ==
  {InitialPalette, Append(InitialPalette, PeerColor), Append(InitialPalette, TEAL)}

InitPeers ==
  /\ wb = NewWhiteboard(TRUE)
  /\ \E palette \in PeerPalettes : nt = [NewWhiteboard(TRUE) EXCEPT !.palette = palette]
  /\ used = NoUse

\* peer A picks its tool before its gesture
PeerSetTool ==
  /\ used.starts = 0
  /\ wb.tool = "brush"
  /\ \E t \in AllTools \ {"brush"} : wb' = setTool(wb, t)
  /\ UNCHANGED <<nt, used>>

\* socket.on("drawing-sync", (data) => { whiteboard.syncDrawing(data.strokes); })
DeliverDrawing ==
  /\ nt.ops = 0
  /\ \E k \in 1..Len(wb.emitted) :
       /\ wb.emitted[k].event = "drawing-sync"
       /\ nt' = Op(syncDrawing(nt, wb.emitted[k].payload.strokes),
                   <<"syncDrawing", wb.emitted[k].payload>>)
  /\ UNCHANGED <<wb, used>>

NextPeers ==
  \/ PeerSetTool
  \/ SetColorPickerValue
  \/ StartDraw
  \/ Draw
  \/ EndDraw
  \/ SendCompleteDrawing
  \/ DeliverDrawing

SpecPeers == InitPeers /\ [][NextPeers]_vars

(***************************************************************************)
(* C29.  After a full sync of two peers, B renders every entry of the      *)
(* payload in the colour that A's palette, which travels in the payload,   *)
(* has at the entry's colour index: each brush segment is stroked in that  *)
(* colour, and the raster of B is the raster that the payload gives when   *)
(* its indices are read in its own palette.  This is to be so also when B  *)
(* has a custom colour of its own.                                         *)
(***************************************************************************)
Synced == nt.ops = 1 /\ nt.op[1] = "syncDrawing"

\* the entries of the payload that are segments, in order
SegmentsOf(strokes) == SelectSeq(strokes, LAMBDA micro : Len(micro) = 7)

\* B as it would be, had it read the payload's indices in the payload's palette
ReadInPayloadPalette ==
  syncDrawing([nt EXCEPT !.palette = nt.op[2].colorPalette], nt.op[2].strokes)

C29_PeerColours ==
  Synced =>
    LET payload == nt.op[2]
        segments == SegmentsOf(payload.strokes)
    IN /\ Len(nt.rendered) = Len(segments)
       /\ \A j \in 1..Len(segments) :
            segments[j][1] = 0 =>
              nt.rendered[j].color = indexToColor(payload.colorPalette, segments[j][2])
       /\ nt.data = ReadInPayloadPalette.data

\* the same, for the entries whose colour B's palette has at the same index
\* as the palette of the payload
SharedIndex(payload, idx) ==
  /\ idx < Len(nt.palette)
  /\ indexToColor(nt.palette, idx) = indexToColor(payload.colorPalette, idx)

C29_SharedColours ==
  Synced =>
    LET payload == nt.op[2]
        segments == SegmentsOf(payload.strokes)
    IN /\ Len(nt.rendered) = Len(segments)
       /\ \A j \in 1..Len(segments) :
            (segments[j][1] = 0 /\ SharedIndex(payload, segments[j][2])) =>
              nt.rendered[j].color = indexToColor(payload.colorPalette, segments[j][2])
       /\ (\A k \in 1..Len(payload.strokes) : SharedIndex(payload, payload.strokes[k][2]))
            => nt.data = ReadInPayloadPalette.data

\* B rendered a segment of a colour that A registered, and B has another
\* colour at that index
C29_OwnColour ==
  /\ Synced
  /\ Len(nt.rendered) > 0
  /\ Len(nt.op[2].colorPalette) > Len(InitialPalette)
  /\ nt.op[2].colorPalette[Len(InitialPalette) + 1] = TEAL
  /\ nt.palette[Len(nt.palette)] = PeerColor
  /\ nt.rendered[1].color = PeerColor

(***************************************************************************)
(* One whiteboard with a transport and one gesture, during or after which  *)
(* the user changes the tool, the colour or the brush size once.           *)
(***************************************************************************)
BrushSizes == {9}

SetBrushSize ==
  /\ used.tools < MaxTools
  /\ \E size \in BrushSizes : size # wb.brushSize /\ wb' = setBrushSize(wb, size)
  /\ used' = [used EXCEPT !.tools = @ + 1]
  /\ UNCHANGED nt

NextStyle ==
  \/ Tick
  \/ Idle
  \/ FireFlush
  \/ FireSend
  \/ StartDraw
  \/ Draw
  \/ EndDraw
  \/ SetTool
  \/ SetColorPickerValue
  \/ SetBrushSize

SpecStyle == InitLive /\ [][NextStyle]_vars

(***************************************************************************)
(* C31.  Every micro-stroke that sendRealtimeStroke accepts carries the    *)
(* type, colour, width and strokeId that were current when draw generated  *)
(* its segment, also when the segment was held by the throttle or by an    *)
(* interpolation timer and setTool, setColorPickerValue, setBrushSize or a *)
(* new startDraw ran before it was accepted.                               *)
(***************************************************************************)
StyleOf(m) == wb.styles[RankOf(m)]

C31_StyleAtGeneration ==
  \A k \in 1..Len(wb.accepted) :
    LET m == wb.accepted[k]
    IN /\ m.stroke[1] = StyleOf(m)[1]
       /\ m.stroke[8] = StyleOf(m)[2]
       /\ m.stroke[3] = StyleOf(m)[3]
       /\ StrokeIdOf(m) = StyleOf(m)[4]

(***************************************************************************)
(* C32.  When a local fill is logged, the originalColor of its entry in    *)
(* the stroke log, and of the single-stroke payload sent for it, is the    *)
(* colour that the seed pixel had before the fill was applied.             *)
(***************************************************************************)
\* the step from s to t logged a local fill
LocalFill(s, t) ==
  /\ Len(t.strokes) = Len(s.strokes) + 1
  /\ t.strokes[Len(t.strokes)][1] = 2
  /\ t.gestures = s.gestures + 1

\* the colour of the pixel of data under the seed of the fill entry e
SeedColor(data, e) ==
  LET px == PixelAt(data, e[4] * CanvasW + e[3])
  IN rgbToHex(px[1], px[2], px[3])

\* the single-stroke payload that the step emitted for the fill
FillSent(t) == t.emitted[Len(t.emitted)].payload.stroke

C32_OriginalColorBefore ==
  [][LocalFill(wb, wb') =>
       LET e == wb'.strokes[Len(wb'.strokes)]
       IN /\ e[5] = SeedColor(wb.data, e)
          /\ Len(wb'.emitted) = Len(wb.emitted) + 1
          /\ FillSent(wb')[7] = SeedColor(wb.data, e)]_vars

\* what the code records: the colour of the seed pixel after the fill
C32_OriginalColorAfter ==
  [][LocalFill(wb, wb') =>
       LET e == wb'.strokes[Len(wb'.strokes)]
       IN /\ e[5] = SeedColor(wb'.data, e)
          /\ Len(wb'.emitted) = Len(wb.emitted) + 1
          /\ FillSent(wb')[7] = SeedColor(wb'.data, e)]_vars

(***************************************************************************)
(* C33.  Interpolation sends are fire-and-forget.  A draw step longer than *)
(* INTERP_THRESHOLD leaves its interpolated sub-segments in timers, with   *)
(* delays that grow by INTERP_STAGGER, and sends none of them itself; the  *)
(* step that ends the gesture leaves every scheduled interpolation timer   *)
(* in place; and with a transport and timers that eventually fire, when    *)
(* interpolated segments are still scheduled after the gesture has ended,  *)
(* all of them are eventually accepted and emitted in a stroke-batch.      *)
(***************************************************************************)
InterpTimersOf(s) == SelectSeq(s.timers, LAMBDA t : t.kind = "interp")

\* the gesture has ended and an interpolated segment is still scheduled
ScheduledAfterEnd == ~wb.isDrawing /\ InterpTimersOf(wb) # <<>>

\* the segment of rank r was accepted and its micro-stroke is in a stroke-batch
EmittedIn(s, r) ==
  \E k \in 1..Len(s.accepted) :
    /\ RankOf(s.accepted[k]) = r
    /\ \E j \in 1..Len(BatchedStrokes(s)) : BatchedStrokes(s)[j] = s.accepted[k].stroke

EmittedRank(r) == EmittedIn(wb, r)

\* no interpolated segment is scheduled any more, and every generated segment
\* is in a stroke-batch
AllEmitted ==
  /\ InterpTimersOf(wb) = <<>>
  /\ \A r \in 1..wb.generated : EmittedRank(r)

\* the step was a draw call that generated segments
DrawStep == wb'.generated > wb.generated

C33_FireAndForget ==
  /\ [][EndDrawStep => InterpTimersOf(wb') = InterpTimersOf(wb)]_vars
  /\ [][DrawStep =>
          LET new == SubSeq(InterpTimersOf(wb'), Len(InterpTimersOf(wb)) + 1,
                            Len(InterpTimersOf(wb')))
          IN /\ Len(new) = wb'.generated - wb.generated - 1
             /\ \A i \in 1..Len(new) :
                  /\ new[i].ms = i * INTERP_STAGGER
                  /\ new[i].args[6] = wb.generated + 1 + i
                  /\ ~EmittedIn(wb', new[i].args[6])]_vars
  /\ ScheduledAfterEnd ~> AllEmitted

\* the gesture has ended while an interpolated segment is still scheduled
C33_Witness ==
  /\ ~wb.isDrawing
  /\ Len(wb.strokes) = 1
  /\ ScheduledAfterEnd
  /\ InterpTimersOf(wb)[1].args[6] = wb.generated
  /\ ~EmittedRank(wb.generated)

\* an interpolated segment was emitted after the gesture had ended: the
\* second half of the long step from (1,1) to (22,1) is in a stroke-batch
C33_EmittedLater ==
  /\ ~wb.isDrawing
  /\ wb.timers = <<>>
  /\ wb.generated = 2
  /\ EmittedRank(2)
  /\ \E j \in 1..Len(BatchedCoords(wb)) : BatchedCoords(wb)[j] = <<12, 1, 22, 1>>

(***************************************************************************)
(* C34.  In every batch passed to syncStrokeBatchData, also one in which   *)
(* entries without strokeId/sequence sit between entries that carry them,  *)
(* the entries that carry the metadata and share a strokeId are applied in *)
(* non-decreasing sequence order.                                          *)
(***************************************************************************)
C34_MetaInSequenceOrder ==
  wb.batches > 0
    => \A i \in 1..Len(wb.applied) : \A j \in (i + 1)..Len(wb.applied) :
         LET a == wb.inbox[wb.applied[i]]
             b == wb.inbox[wb.applied[j]]
         IN (HasMeta(a) /\ HasMeta(b) /\ a[9] = b[9]) => a[10] <= b[10]

\* the same, for the metadata-carrying entries with no entry without metadata
\* between them in the batch as it arrived
C34_AdjacentMetaInOrder ==
  wb.batches > 0
    => \A i \in 1..Len(wb.applied) : \A j \in (i + 1)..Len(wb.applied) :
         LET a == wb.inbox[wb.applied[i]]
             b == wb.inbox[wb.applied[j]]
             lo == Min(wb.applied[i], wb.applied[j])
             hi == Max(wb.applied[i], wb.applied[j])
         IN (/\ HasMeta(a) /\ HasMeta(b) /\ a[9] = b[9]
             /\ \A k \in lo..hi : HasMeta(wb.inbox[k]))
              => a[10] <= b[10]

(***************************************************************************)
(* C35.  The emitted stroke-batches, one after the other, followed by the  *)
(* outgoing buffer, list the accepted micro-strokes exactly once each and  *)
(* in the order of their acceptance; no stroke-batch is empty; and with    *)
(* timers that eventually fire the buffer is eventually empty for good, so *)
(* that every accepted micro-stroke is in exactly one emitted batch.       *)
(***************************************************************************)
AcceptedStrokes(s) == [k \in 1..Len(s.accepted) |-> s.accepted[k].stroke]

InAcceptOrder ==
  /\ BatchedStrokes(wb) \o wb.strokeBuffer = AcceptedStrokes(wb)
  /\ \A i \in 1..Len(Batches(wb)) : Batches(wb)[i].payload # <<>>

AllBatched ==
  /\ wb.strokeBuffer = <<>>
  /\ BatchedStrokes(wb) = AcceptedStrokes(wb)

C35_BatchesInAcceptOrder == []InAcceptOrder /\ <>[]AllBatched

\* three accepted micro-strokes went out in two or more batches
C35_Witness ==
  /\ Len(wb.accepted) >= 3
  /\ Len(Batches(wb)) >= 2
  /\ AllBatched

\* accepted micro-strokes wait in the buffer behind an emitted batch
C35_Buffered ==
  /\ Len(Batches(wb)) >= 1
  /\ wb.strokeBuffer # <<>>
  /\ InAcceptOrder

(***************************************************************************)
(* C36.  With a transport attached, whenever the outgoing buffer is not    *)
(* empty between two steps, the deferred flush timer that batchTimer names *)
(* is pending; without a transport the buffer is empty.  A buffered        *)
(* micro-stroke therefore leaves the buffer when that timer fires, with no *)
(* further user event.                                                     *)
(***************************************************************************)
FlushPending(s) ==
  \E i \in 1..Len(s.timers) : s.timers[i].kind = "flush" /\ s.timers[i].id = s.batchTimer

C36_BufferedHasTimer ==
  /\ wb.strokeBuffer # <<>> => (wb.socket /\ FlushPending(wb))
  /\ \A i \in 1..Len(wb.timers) :
       (wb.timers[i].kind = "flush" /\ CanFire(wb, i))
         => FireTimerOf(wb, i).strokeBuffer = <<>>

\* two micro-strokes wait in the buffer, the flush timer is due, and the
\* gesture is still going on
C36_Witness ==
  /\ Len(wb.strokeBuffer) = 2
  /\ wb.isDrawing
  /\ \E i \in 1..Len(wb.timers) : wb.timers[i].kind = "flush" /\ CanFire(wb, i)

(***************************************************************************)
(* C37.  No segment that draw generated before a clearCanvas call is       *)
(* emitted in a stroke-batch after the canvas-clear event of that call:    *)
(* what is buffered or held in a timer when clearCanvas runs is emitted    *)
(* before canvas-clear or not at all.                                      *)
(***************************************************************************)
\* the places of the canvas-clear events among the emitted events
ClearEvents(s) == {i \in 1..Len(s.emitted) : s.emitted[i].event = "canvas-clear"}

\* the number of micro-strokes in the stroke-batches emitted before place i
BatchedBefore(s, i) == Len(BatchedStrokes([s EXCEPT !.emitted = SubSeq(@, 1, i - 1)]))

\* the number of segments generated before the clearCanvas call whose event
\* is at place i
GeneratedBefore(s, i) == s.cleared[Cardinality({j \in ClearEvents(s) : j <= i})]

C37_ClearOrder ==
  \A i \in ClearEvents(wb) :
    \A k \in (BatchedBefore(wb, i) + 1)..Len(BatchedStrokes(wb)) :
      RankOf(wb.accepted[k]) > GeneratedBefore(wb, i)

\* what holds: a segment that was emitted before the clear is not emitted
\* again after it
C37_NotResent ==
  \A i \in ClearEvents(wb) :
    \A k \in (BatchedBefore(wb, i) + 1)..Len(BatchedStrokes(wb)) :
      \A h \in 1..BatchedBefore(wb, i) :
        RankOf(wb.accepted[k]) # RankOf(wb.accepted[h])

(***************************************************************************)
(* C38.  Whenever draw renders during a local brush or eraser gesture, the *)
(* drawing context has the gesture's own composite mode, width and (for    *)
(* the brush) colour, and the cached last-context values equal the values  *)
(* of the drawing context, also when a remote batch or single operation    *)
(* was applied between two draw events of the gesture.                     *)
(***************************************************************************)
\* the step was a draw call that added a point to the current stroke and
\* rendered
DrawRenders ==
  /\ wb.isDrawing /\ wb'.isDrawing
  /\ Len(wb'.currentStroke) = Len(wb.currentStroke) + 2
  /\ Len(wb'.rendered) = Len(wb.rendered) + 1

ModeOf(stroke) == IF stroke[1] = 1 THEN DESTINATION_OUT ELSE SOURCE_OVER

\* the rendered entry e has the style of the current stroke
OwnStyle(e, stroke) ==
  /\ e.mode = ModeOf(stroke)
  /\ e.width = stroke[3]
  /\ e.mode = SOURCE_OVER => e.color = stroke[2]

\* the cached values are those of the drawing context
CacheTrue(s) ==
  /\ s.lastContextMode = s.ctx.globalCompositeOperation
  /\ s.lastContextWidth = s.ctx.lineWidth
  /\ s.lastContextMode = SOURCE_OVER => s.lastContextColor = s.ctx.strokeStyle

C38_OwnStyleRendered ==
  [][DrawRenders =>
       /\ OwnStyle(wb'.rendered[Len(wb'.rendered)], wb'.currentStroke)
       /\ CacheTrue(wb')]_vars

\* the same, for gestures during which nothing remote was applied
C38_UndisturbedStyle ==
  [][(DrawRenders /\ wb.ops = 0) =>
       /\ OwnStyle(wb'.rendered[Len(wb'.rendered)], wb'.currentStroke)
       /\ CacheTrue(wb')]_vars

(***************************************************************************)
(* C39.  After syncDrawing(L) the stroke log represents L: the             *)
(* micro-strokes that getMicroStrokesStyleData gives (those that           *)
(* getMicroStrokesJSON returns and sendCompleteDrawing sends) are the      *)
(* segment and fill entries of L, in order.                                *)
(***************************************************************************)
Loaded == wb.ops = 1 /\ wb.op[1] = "syncDrawing"

\* the step was a syncDrawing call
LoadStep == wb.ops = 0 /\ Loaded'

\* the entries of a list that applyStrokesData applies: 4-field fills and
\* 7-field segments
DrawnEntries(strokes) == SelectSeq(strokes, LAMBDA micro : Len(micro) \in {4, 7})

C39_LoadedCanBeSaved ==
  [][LoadStep => getMicroStrokesStyleData(wb').micro = DrawnEntries(wb'.op[2])]_vars

\* what the code does: the load leaves the stroke log empty, and the
\* micro-strokes of the whiteboard are none
C39_LoadEmptiesLog ==
  [][LoadStep => (wb'.strokes = <<>> /\ getMicroStrokesStyleData(wb').micro = <<>>)]_vars

\* a list with a segment and a fill was loaded and rendered
C39_LoadedTwo ==
  /\ Loaded
  /\ wb.op[2] = <<Plain7, Fill4>>
  /\ Len(wb.rendered) = 1

(***************************************************************************)
(* C40.  syncStrokeBatchData leaves the stroke log, the palette, the       *)
(* outgoing buffer, the strokeId and the sequence counter as they are and  *)
(* emits nothing.  The stroke log changes only in a step that ends a local *)
(* gesture, performs a local fill, applies a remote fill single operation, *)
(* clears, or replaces the whole drawing.                                  *)
(***************************************************************************)
BatchFrame ==
  /\ wb'.strokes = wb.strokes
  /\ wb'.palette = wb.palette
  /\ wb'.strokeBuffer = wb.strokeBuffer
  /\ wb'.currentStrokeId = wb.currentStrokeId
  /\ wb'.microStrokeSequence = wb.microStrokeSequence
  /\ wb'.emitted = wb.emitted

\* the steps that may change the stroke log
LogWriter ==
  \/ EndDrawStep
  \/ LocalFill(wb, wb')
  \/ OpStep("syncSingleStorkes") /\ wb'.op[3] = "fill"
  \/ OpStep("clearCanvas")
  \/ OpStep("syncClearCanvas")
  \/ OpStep("syncDrawing")

====
